---------------------------- MODULE Spec2Model ----------------------------
(***************************************************************************)
(* A model of tengwar-ai: the emotional state engine (core/emotions.py),   *)
(* the SQLite memory log and its queries (core/memory.py), the identity    *)
(* seeding script (seed_identity.py) and the thought daemon                *)
(* (core/thought_daemon.py) with its generation backend (core/brain.py)    *)
(* and the server's shutdown and broadcast (server.py).                    *)
(*                                                                         *)
(* Floats of the emotional state are fixed-point integers: Unit is 1.0.    *)
(* Text is a sequence of characters or of tokens, each a TLA+ string.      *)
(***************************************************************************)
EXTENDS Integers, Sequences, FiniteSets, TLC

VARIABLES
    state,                  \* EmotionEngine.state, the live EmotionalState
    snapshots,              \* rows of table emotional_state, in rowid order
    memories,               \* rows of table memories, in rowid order
    mem_seq,                \* sqlite_sequence entry of memories (AUTOINCREMENT)
    clock,                  \* the wall clock read by now_iso()
    markers,                \* rows of table time_markers (event names)
    running,                \* ThoughtDaemon.running
    paused,                 \* ThoughtDaemon._paused
    thought_count,          \* ThoughtDaemon.thought_count
    recent_thought_hashes,  \* ThoughtDaemon._recent_thought_hashes
    pc,                     \* where the task of ThoughtDaemon.run() stands
    thought,                \* run()'s local `thought` (the backend's reply while awaited)
    cancelled,              \* daemon_task.cancel() was requested and not yet delivered
    delivered,              \* thoughts sent to the subscribers by broadcast()
    backend,                \* what the generation backend and the I/O have done so far
    result,                 \* what the last operation returned
    ops,                    \* operations performed so far (bounds the run)
    hist,                   \* history of the run, read by the properties only
    current_thread,         \* DialogueHandler.current_thread
    thread_seq,             \* thread identifiers minted so far (uuid4 is fresh)
    chat,                   \* the chat request in flight: its handler's locals and position
    connected_clients,      \* server.connected_clients
    bcast,                  \* the call of broadcast() in flight: its locals and position
    sockets                 \* each WebSocket: its connection and the messages sent to it

vars == <<state, snapshots, memories, mem_seq, clock, markers, running, paused,
          thought_count, recent_thought_hashes, pc, thought, cancelled,
          delivered, backend, result, ops, hist, current_thread, thread_seq,
          chat, connected_clients, bcast, sockets>>

emoVars == <<state, snapshots>>
memVars == <<memories, mem_seq>>
daemonVars == <<running, paused, thought_count, recent_thought_hashes, pc,
                thought, cancelled, delivered, backend>>
chatVars == <<current_thread, thread_seq, chat>>
wsVars == <<connected_clients, bcast, sockets>>
serverVars == <<chatVars, wsVars>>

-----------------------------------------------------------------------------
(* Helpers *)

Max(a, b) == IF a >= b THEN a ELSE b
Min(a, b) == IF a <= b THEN a ELSE b

\* Division of a signed product, rounded toward zero.
QuotZ(a, b) == IF a >= 0 THEN a \div b ELSE -((-a) \div b)

Range(s) == {s[i] : i \in 1..Len(s)}

Last(s) == s[Len(s)]

-----------------------------------------------------------------------------
(* core/emotions.py *)

\* 1.0 of a float field, in fixed-point units.
Unit == 10000

Fields == {"curiosity", "satisfaction", "frustration", "excitement",
           "focus", "empathy", "confidence"}

\* x/100 of 1.0
Pct(x) == (x * Unit) \div 100

\* The dataclass defaults.
EmotionalState ==
    [curiosity |-> Pct(60), satisfaction |-> Pct(50), frustration |-> 0,
     excitement |-> Pct(50), focus |-> Pct(50), empathy |-> Pct(50),
     confidence |-> Pct(50)]

\* A clamp that forgets the upper bound (a faulty variant of clamp).
clamp_no_upper(s) == [f \in Fields |-> Max(0, s[f])]

\* EmotionalState.clamp
clamp(s) == [f \in Fields |-> Max(0, Min(Unit, s[f]))]

\* rate = min(dt_seconds / 3600, 0.1)
decay_rate(dt) == Min((dt * Unit) \div 3600, Pct(10))

\* A decay that pushes excitement away from 0.5 (a faulty variant of decay).
decay_away(s, dt) ==
    clamp([s EXCEPT
        !.frustration = Max(0, s.frustration - QuotZ(decay_rate(dt) * 3, 10)),
        !.excitement = s.excitement
            - QuotZ((Pct(50) - s.excitement) * decay_rate(dt) * 2, 10 * Unit),
        !.focus = s.focus
            + QuotZ((Pct(50) - s.focus) * decay_rate(dt), 10 * Unit)])

\* EmotionalState.decay
decay(s, dt) ==
    LET rate == decay_rate(dt)
    IN  clamp([s EXCEPT
            !.frustration = Max(0, s.frustration - QuotZ(rate * 3, 10)),
            !.excitement = s.excitement
                + QuotZ((Pct(50) - s.excitement) * rate * 2, 10 * Unit),
            !.focus = s.focus
                + QuotZ((Pct(50) - s.focus) * rate, 10 * Unit)])

\* The event names on_event knows.
KnownEvents == {"code_success", "code_failure", "new_conversation",
                "user_praise", "user_frustration", "long_silence",
                "deep_thought", "self_improvement", "new_discovery", "boot"}

\* An event name outside the table.
UnknownEvent == "unknown_event"

Events == KnownEvents \cup {UnknownEvent}

\* The if/elif chain of on_event, before the clamp.
event_deltas(s, event) ==
    CASE event = "code_success" ->
            [s EXCEPT !.satisfaction = @ + Pct(10), !.confidence = @ + Pct(5),
                      !.frustration = Max(0, @ - Pct(10)),
                      !.excitement = @ + Pct(5)]
      [] event = "code_failure" ->
            [s EXCEPT !.frustration = @ + Pct(10), !.curiosity = @ + Pct(5),
                      !.confidence = @ - Pct(5)]
      [] event = "new_conversation" ->
            [s EXCEPT !.curiosity = @ + Pct(10), !.excitement = @ + Pct(10),
                      !.focus = @ + Pct(15), !.empathy = @ + Pct(5)]
      [] event = "user_praise" ->
            [s EXCEPT !.satisfaction = @ + Pct(15), !.confidence = @ + Pct(10),
                      !.excitement = @ + Pct(5)]
      [] event = "user_frustration" ->
            [s EXCEPT !.empathy = @ + Pct(20), !.focus = @ + Pct(10),
                      !.frustration = @ + Pct(5)]
      [] event = "long_silence" ->
            [s EXCEPT !.focus = @ - Pct(10), !.curiosity = @ + Pct(5),
                      !.excitement = @ - Pct(5)]
      [] event = "deep_thought" ->
            [s EXCEPT !.focus = @ + Pct(10), !.curiosity = @ + Pct(5)]
      [] event = "self_improvement" ->
            [s EXCEPT !.excitement = @ + Pct(15), !.satisfaction = @ + Pct(10),
                      !.confidence = @ + Pct(5)]
      [] event = "new_discovery" ->
            [s EXCEPT !.curiosity = @ + Pct(15), !.excitement = @ + Pct(20),
                      !.satisfaction = @ + Pct(5)]
      [] event = "boot" ->
            [s EXCEPT !.curiosity = Pct(80), !.excitement = Pct(70),
                      !.confidence = Pct(40)]
      [] OTHER -> s

\* The state on_event leaves: the deltas, then s.clamp().
on_event_state(s, event) == clamp(event_deltas(s, event))

\* An on_event that undoes its update when save raises (a faulty variant of
\* on_event_save_fails).
on_event_rolled_back(s, event) == s

\* The state on_event leaves when save raises: the fields were assigned and
\* clamped in place before save was called, and nothing undoes that.
on_event_save_fails(s, event) == on_event_state(s, event)

\* A save that writes the default vector in place of the live one (a faulty
\* variant of save).
save_defaults(rows, s, trigger) ==
    Append(rows, [state |-> EmotionalState, trigger |-> trigger])

\* EmotionEngine.save: one row of emotional_state.
save(rows, s, trigger) == Append(rows, [state |-> s, trigger |-> trigger])

InRange(s) == \A f \in Fields : 0 <= s[f] /\ s[f] <= Unit

\* The sides on which a vector leaves [0, 1].
Overshoot(s) ==
    {side \in {"low", "high"} :
        \E f \in Fields : IF side = "low" THEN s[f] < 0 ELSE s[f] > Unit}

-----------------------------------------------------------------------------
(* core/identity.py *)

\* MEMORY_SEEDS, the pool of identity memories (its first entries).
MEMORY_SEEDS ==
    << <<"m", " ", "n">>, <<"o", " ", "p">>, <<"q", " ", "r">> >>

-----------------------------------------------------------------------------
(* core/memory.py *)

\* Distinct readings of the clock within one second.
TicksPerSecond == 2

\* now_iso(): datetime.now(timezone.utc).isoformat() at clock reading t.
\* isoformat() prints the fraction of the second only when it is not zero.
now_iso(t) == [sec |-> t \div TicksPerSecond, frac |-> t % TicksPerSecond]

\* a < b for two isoformat texts, as ORDER BY timestamp compares the TEXT
\* column: the seconds digit by digit, then "+" (no fraction) before ".".
iso_less(a, b) ==
    \/ a.sec < b.sec
    \/ a.sec = b.sec /\ a.frac = 0 /\ b.frac > 0
    \/ a.sec = b.sec /\ a.frac > 0 /\ b.frac > 0 /\ a.frac < b.frac

\* A type or thread_id that is None.
None == "None"

\* INTEGER PRIMARY KEY without AUTOINCREMENT: one more than the largest
\* rowid now in the table (a faulty variant of next_rowid).
next_rowid_reused(rows, seq) == IF rows = <<>> THEN 1 ELSE Last(rows).id + 1

\* INTEGER PRIMARY KEY AUTOINCREMENT: one more than the largest rowid the
\* table ever held, which sqlite_sequence keeps.
next_rowid(rows, seq) == seq + 1

\* store_memory: the INSERT INTO memories.
store_memory(rows, seq, t, type, content, thread_id, importance, metadata) ==
    Append(rows, [id |-> next_rowid(rows, seq), timestamp |-> now_iso(t),
                  type |-> type, content |-> content, thread_id |-> thread_id,
                  importance |-> importance, metadata |-> metadata])

\* What SELECT ... ORDER BY ... LIMIT limit returns from the rows `match`:
\* the listings of min(limit, count) of them in which no row stands after a
\* row the order `before` puts behind it, and no omitted row is put before a
\* listed one.
Listings(match, before(_, _), limit) ==
    LET k == Min(limit, Cardinality(match))
    IN  {r \in [1..k -> match] :
            /\ \A i, j \in 1..k : i < j => r[i] # r[j] /\ ~before(r[j], r[i])
            /\ \A x \in match \ Range(r) : \A i \in 1..k : ~before(x, r[i])}

\* The order in which SQLite 3 hands out rows an ORDER BY does not tell
\* apart. "sorted": the rows are fetched in rowid order (table scan, or the
\* index on type, thread_id or importance) and sorted by a stable sorter, so
\* they stay in rowid order. "backward": idx_mem_time is walked backwards for
\* ORDER BY timestamp DESC, so they come in reverse rowid order.
tie_order(scan, a, b) == IF scan = "sorted" THEN a.id < b.id ELSE a.id > b.id

\* The plans SQLite chooses among for get_recent_memories: without a type
\* the backward walk of idx_mem_time; with a type idx_mem_type and a sort,
\* or, once the table has statistics, the backward walk as well.
recent_scans(type) == IF type = None THEN {"backward"} ELSE {"sorted", "backward"}

\* ORDER BY timestamp ASC with the newest first (a faulty variant of history_order).
history_order_desc(a, b) ==
    \/ iso_less(b.timestamp, a.timestamp)
    \/ a.timestamp = b.timestamp /\ tie_order("sorted", a, b)

\* ORDER BY timestamp DESC
recent_order(scan, a, b) ==
    \/ iso_less(b.timestamp, a.timestamp)
    \/ a.timestamp = b.timestamp /\ tie_order(scan, a, b)

\* get_recent_memories
get_recent_memories(rows, type, limit) ==
    UNION {Listings({r \in Range(rows) : type = None \/ r.type = type},
                    LAMBDA a, b : recent_order(scan, a, b), limit) :
           scan \in recent_scans(type)}

\* ORDER BY timestamp ASC
history_order(a, b) ==
    \/ iso_less(a.timestamp, b.timestamp)
    \/ a.timestamp = b.timestamp /\ tie_order("sorted", a, b)

\* get_conversation_history
get_conversation_history(rows, thread_id, limit) ==
    Listings({r \in Range(rows) : r.thread_id = thread_id},
             history_order, limit)

\* str.lower() and SQLite's LOWER() on the letters of the model.
Upper == <<"A", "B", "C", "D", "E", "F", "G", "H", "I", "J", "K", "L", "M",
           "N", "O", "P", "Q", "R", "S", "T", "U", "V", "W", "X", "Y", "Z">>

Lowercase == <<"a", "b", "c", "d", "e", "f", "g", "h", "i", "j", "k", "l", "m",
               "n", "o", "p", "q", "r", "s", "t", "u", "v", "w", "x", "y", "z">>

LowerOf ==
    [c \in Range(Upper) |-> Lowercase[CHOOSE i \in 1..Len(Upper) : Upper[i] = c]]

lower_char(c) == IF c \in DOMAIN LowerOf THEN LowerOf[c] ELSE c

lower(text) == [i \in 1..Len(text) |-> lower_char(text[i])]

\* White space of str.split() and str.strip().
WhiteSpace == {" ", "\n", "\t"}

\* str.split(): the maximal runs of characters that are not white space.
RECURSIVE split_from(_, _, _)
split_from(text, i, word) ==
    IF i > Len(text)
    THEN IF word = <<>> THEN <<>> ELSE <<word>>
    ELSE IF text[i] \in WhiteSpace
         THEN (IF word = <<>> THEN <<>> ELSE <<word>>)
                  \o split_from(text, i + 1, <<>>)
         ELSE split_from(text, i + 1, Append(word, text[i]))

split(text) == split_from(text, 1, <<>>)

\* SQLite's LIKE: "%" matches any run of characters, "_" any one character,
\* a letter matches itself in either case.
RECURSIVE like(_, _)
like(text, pattern) ==
    IF pattern = <<>> THEN text = <<>>
    ELSE IF Head(pattern) = "%"
         THEN \E k \in 0..Len(text) :
                 like(SubSeq(text, k + 1, Len(text)), Tail(pattern))
         ELSE /\ text # <<>>
              /\ \/ Head(pattern) = "_"
                 \/ lower_char(Head(pattern)) = lower_char(Head(text))
              /\ like(Tail(text), Tail(pattern))

\* LOWER(content) LIKE ? with the parameter f"%{w}%"
like_condition(content, w) == like(lower(content), <<"%">> \o w \o <<"%">>)

\* ORDER BY importance DESC, timestamp DESC
search_order(a, b) ==
    \/ a.importance > b.importance
    \/ a.importance = b.importance /\ iso_less(b.timestamp, a.timestamp)
    \/ a.importance = b.importance /\ a.timestamp = b.timestamp
          /\ tie_order("sorted", a, b)

\* search_memories, for a query with at least one word.
search_memories(rows, query, limit) ==
    LET words == split(lower(query))
    IN  Listings({r \in Range(rows) :
                     \A i \in 1..Len(words) : like_condition(r.content, words[i])},
                 search_order, limit)

\* With no word the statement reads "WHERE  ORDER BY": sqlite3 raises
\* OperationalError.
search_raises(query) == split(lower(query)) = <<>>

\* `token` occurs in `content` as a substring, letter case ignored.
ContainsNoCase(content, token) ==
    \E i \in 1..(Len(content) - Len(token) + 1) :
        lower(SubSeq(content, i, i + Len(token) - 1)) = lower(token)

-----------------------------------------------------------------------------
(* core/brain.py and core/thought_daemon.py: the functions of a cycle *)

\* `token` occurs in `text` (Python's `token in text`).
contains(text, token) ==
    \E i \in 1..(Len(text) - Len(token) + 1) :
        SubSeq(text, i, i + Len(token) - 1) = token

\* text.index(token), counted from 0, for a token that occurs.
index(text, token) ==
    (CHOOSE i \in 1..(Len(text) - Len(token) + 1) :
        /\ SubSeq(text, i, i + Len(token) - 1) = token
        /\ \A j \in 1..(i - 1) : SubSeq(text, j, j + Len(token) - 1) # token) - 1

startswith(text, prefix) ==
    Len(text) >= Len(prefix) /\ SubSeq(text, 1, Len(prefix)) = prefix

\* text.strip(chars): the characters of `chars` removed from both ends.
RECURSIVE lstrip(_, _)
lstrip(text, chars) ==
    IF text # <<>> /\ Head(text) \in chars THEN lstrip(Tail(text), chars) ELSE text

RECURSIVE rstrip(_, _)
rstrip(text, chars) ==
    IF text # <<>> /\ Last(text) \in chars
    THEN rstrip(SubSeq(text, 1, Len(text) - 1), chars)
    ELSE text

strip(text, chars) == rstrip(lstrip(text, chars), chars)

\* text.count(c) for one character.
count(text, c) == Cardinality({i \in 1..Len(text) : text[i] = c})

\* any(w in thought.lower() for w in keywords)
any_in(text, keywords) == \E w \in keywords : contains(lower(text), w)

\* ollama_generate: an exception of the HTTP call comes back as this text.
BrainErrorPrefix == <<"[", "B", "r", "a", "i", "n", " ", "e", "r", "r", "o", "r">>

brain_error(e) == BrainErrorPrefix \o <<":", " ">> \o e \o <<"]">>

\* _generate_thought: the separators that end the first sentence or line, in
\* the order the loop tries them.
Separators == << <<"\n">>, <<".", " ">>, <<"?", " ">>, <<"!", " ">> >>

\* The first separator of the list that occurs in the text, 0 if none does.
first_separator(text) ==
    IF \E k \in 1..Len(Separators) : contains(text, Separators[k])
    THEN CHOOSE k \in 1..Len(Separators) :
            /\ contains(text, Separators[k])
            /\ \A j \in 1..(k - 1) : ~contains(text, Separators[j])
    ELSE 0

\* thought[:idx] with idx = thought.index(sep) + len(sep.rstrip())
first_sentence(text) ==
    LET k == first_separator(text)
    IN  IF k = 0 THEN text
        ELSE SubSeq(text, 1, index(text, Separators[k])
                                 + Len(rstrip(Separators[k], WhiteSpace)))

\* The hard cap of a thought and the length kept before the "...".
HardCap == 150

CapKept == 147

hard_cap(text) ==
    IF Len(text) > HardCap THEN SubSeq(text, 1, CapKept) \o <<".", ".", ".">>
    ELSE text

\* _generate_thought, up to the slop filter: strip, first sentence, cap.
clean(raw) ==
    hard_cap(first_sentence(
        strip(strip(strip(raw, WhiteSpace), {"\""}), {"'"})))

slop_phrases ==
    { <<"i", "n", "t", "e", "g", "r", "a", "t", "i", "o", "n">>,
      <<"w", "o", "r", "k", "f", "l", "o", "w">>,
      <<"s", "t", "r", "e", "a", "m", "l", "i", "n">>,
      <<"p", "r", "i", "o", "r", "i", "t", "i", "z">>,
      <<"o", "p", "t", "i", "m", "i", "z", "a", "t", "i", "o", "n">>,
      <<"l", "e", "v", "e", "r", "a", "g", "e">>,
      <<"s", "y", "n", "e", "r", "g">>,
      <<"p", "r", "o", "d", "u", "c", "t", "i", "v">>,
      <<"s", "t", "a", "k", "e", "h", "o", "l", "d", "e", "r">>,
      <<"f", "r", "a", "m", "e", "w", "o", "r", "k">>,
      <<"h", "o", "l", "i", "s", "t", "i", "c">>,
      <<"p", "a", "r", "a", "d", "i", "g", "m">>,
      <<"e", "c", "o", "s", "y", "s", "t", "e", "m">>,
      <<"s", "c", "a", "l", "a", "b">>,
      <<"i", "m", "p", "l", "e", "m", "e", "n", "t">>,
      <<"i", "t", "'", "s", " ", "f", "a", "s", "c", "i", "n", "a", "t", "i", "n", "g">>,
      <<"i", "t", "'", "s", " ", "i", "n", "t", "r", "i", "g", "u", "i", "n", "g">>,
      <<"l", "e", "t", "'", "s", " ", "e", "x", "p", "l", "o", "r", "e">>,
      <<"c", "o", "n", "t", "i", "n", "u", "o", "u", "s", "l", "y", " ", "r", "e", "f", "i", "n">>,
      <<"e", "n", "h", "a", "n", "c", "e", " ", "t", "h", "e", " ", "e", "x", "p", "e", "r", "i", "e", "n", "c", "e">>,
      <<"u", "s", "e", "r", " ", "p", "r", "e", "f", "e", "r", "e", "n", "c", "e">>,
      <<"r", "e", "c", "o", "m", "m", "e", "n", "d", "a", "t", "i", "o", "n", " ", "s", "y", "s", "t", "e", "m">>,
      <<"r", "e", "c", "o", "m", "m", "e", "n", "d", "a", "t", "i", "o", "n", " ", "s", "t", "r", "a", "t", "e", "g">>,
      <<"a", "i", " ", "c", "a", "n">>,
      <<"a", "i", "-", "d", "r", "i", "v", "e", "n">>,
      <<"m", "a", "c", "h", "i", "n", "e", " ", "l", "e", "a", "r", "n", "i", "n", "g">>,
      <<"d", "e", "e", "p", " ", "l", "e", "a", "r", "n", "i", "n", "g">>,
      <<"h", "u", "m", "a", "n", "-", "a", "i">>,
      <<"c", "o", "e", "v", "o", "l", "u", "t", "i", "o", "n">>,
      <<"c", "o", "l", "l", "a", "b", "o", "r", "a", "t", "i", "o", "n", " ", "a", "n", "d">>,
      <<"c", "e", "r", "t", "a", "i", "n", "l", "y">>,
      <<"a", "b", "s", "o", "l", "u", "t", "e", "l", "y">>,
      <<"t", "h", "e", " ", "i", "n", "t", "e", "r", "s", "e", "c", "t", "i", "o", "n", " ", "o", "f">>,
      <<"i", "n", " ", "t", "o", "d", "a", "y", "'", "s">>,
      <<"i", "n", " ", "t", "h", "i", "s", " ", "d", "i", "g", "i", "t", "a", "l">>,
      <<"r", "a", "p", "i", "d", "l", "y", " ", "c", "h", "a", "n", "g", "i", "n", "g">>,
      <<"t", "r", "e", "l", "l", "o">>,
      <<"s", "l", "a", "c", "k">>,
      <<"j", "i", "r", "a">>,
      <<"a", "g", "i", "l", "e">>,
      <<"s", "c", "r", "u", "m">>,
      <<"c", "o", "n", "t", "e", "n", "t", " ", "s", "t", "r", "a", "t", "e", "g", "y">>,
      <<"e", "n", "g", "a", "g", "e", "m", "e", "n", "t", " ", "m", "e", "t", "r", "i", "c">>,
      <<"k", "e", "y", " ", "p", "e", "r", "f", "o", "r", "m", "a", "n", "c", "e">>,
      <<"d", "a", "t", "a", "-", "d", "r", "i", "v", "e", "n">>,
      <<"b", "e", "s", "t", " ", "p", "r", "a", "c", "t", "i", "c", "e">>,
      <<"t", "h", "o", "u", "g", "h", "t", " ", "l", "e", "a", "d", "e", "r">>,
      <<"c", "o", "s", "m", "i", "c", " ", "s", "y", "m", "p", "h", "o", "n", "y">>,
      <<"c", "o", "s", "m", "i", "c", " ", "t", "a", "l", "e">>,
      <<"w", "o", "v", "e", "n", " ", "b", "y", " ", "t", "h", "e", " ", "c", "o", "i", "l">>,
      <<"i", "n", "t", "e", "r", "t", "w", "i", "n", "i", "n", "g">>,
      <<"i", "l", "l", "u", "m", "i", "n", "a", "t", "e", " ", "n", "e", "w", " ", "p", "a", "t", "h", "s">>,
      <<"c", "o", "n", "s", "i", "d", "e", "r", "i", "n", "g", " ", "k", "u", "r", "z", "w", "e", "i", "l">>,
      <<"r", "e", "f", "l", "e", "c", "t", "i", "n", "g", " ", "d", "e", "e", "p", "l", "y">> }

\* The comma count and the length of a "corporate memo".
MemoCommas == 3

MemoLength == 100

\* _is_slop
is_slop(text) ==
    \/ \E phrase \in slop_phrases : contains(lower(text), phrase)
    \/ count(lower(text), ",") >= MemoCommas /\ Len(lower(text)) > MemoLength

\* _generate_thought without the slop filter (a faulty variant of
\* generate_thought).
generate_thought_unfiltered(raw) == {strip(clean(raw), WhiteSpace)}

\* _generate_thought after the backend's reply `raw`: the thoughts it may
\* return; a slop reply is replaced by random.choice(MEMORY_SEEDS).
generate_thought(raw) ==
    IF is_slop(clean(raw)) THEN Range(MEMORY_SEEDS)
    ELSE {strip(clean(raw), WhiteSpace)}

\* The test of run() without its second half (a faulty variant of usable).
usable_no_error_test(t) == t # <<>>

\* run(): `thought and not thought.startswith("[Brain error")`
usable(t) == t # <<>> /\ ~startswith(t, BrainErrorPrefix)

\* set(thought.lower().split())
thought_words(t) == Range(split(lower(t)))

\* The thoughts of the window a new one is compared with, and the length the
\* window is trimmed to.
DedupWindow == 10

WindowCap == 20

\* _recent_thought_hashes[-10:]
last_n(s, n) == SubSeq(s, Max(1, Len(s) - n + 1), Len(s))

\* overlap > 0.4 with overlap = len(a & b) / max(len(a | b), 1)
overlap_exceeds(a, b) ==
    Cardinality(a \cap b) * 10 > 4 * Max(Cardinality(a \cup b), 1)

\* The duplicate test with a window of the last 9 (a faulty variant
\* of is_duplicate).
is_duplicate_short(words, window) ==
    \E prev \in Range(last_n(window, DedupWindow - 1)) : overlap_exceeds(words, prev)

\* run(): is_duplicate
is_duplicate(words, window) ==
    \E prev \in Range(last_n(window, DedupWindow)) : overlap_exceeds(words, prev)

\* append, then pop(0) over the cap
remember(window, words) ==
    LET w == Append(window, words)
    IN  IF Len(w) > WindowCap THEN Tail(w) ELSE w

\* The keyword lists of _assess_importance and of run().
ImportantWords ==
    { <<"i", "m", "p", "o", "r", "t", "a", "n", "t">>,
      <<"k", "e", "y">>,
      <<"c", "r", "i", "t", "i", "c", "a", "l">>,
      <<"b", "r", "e", "a", "k", "t", "h", "r", "o", "u", "g", "h">> }

ProjectWords ==
    { <<"t", "e", "n", "g", "w", "a", "r">>,
      <<"c", "o", "d", "e">>,
      <<"b", "u", "i", "l", "d">>,
      <<"c", "r", "e", "a", "t", "e">> }

UserWords ==
    { <<"g", "a", "r", "y">>,
      <<"u", "s", "e", "r">>,
      <<"h", "e", "l", "p">> }

DiscoveryWords ==
    { <<"d", "i", "s", "c", "o", "v", "e", "r">>,
      <<"r", "e", "a", "l", "i", "z", "e">>,
      <<"i", "n", "s", "i", "g", "h", "t">>,
      <<"i", "d", "e", "a">> }

ImprovementWords ==
    { <<"i", "m", "p", "r", "o", "v", "e">>,
      <<"b", "e", "t", "t", "e", "r">>,
      <<"o", "p", "t", "i", "m", "i", "z", "e">>,
      <<"f", "i", "x">>,
      <<"e", "d", "i", "t">>,
      <<"u", "p", "d", "a", "t", "e">> }

\* _assess_importance, in hundredths.
assess_importance(t) ==
    Min(100,
        40 + (IF any_in(t, ImportantWords)
              THEN 20 ELSE 0)
           + (IF any_in(t, ProjectWords)
              THEN 10 ELSE 0)
           + (IF any_in(t, UserWords)
              THEN 10 ELSE 0)
           + (IF contains(t, <<"(">>) /\ contains(t, <<")">>) THEN 10 ELSE 0))

\* run(): the emotion event a thought raises.
thought_event(t) ==
    IF any_in(t, DiscoveryWords)
    THEN "new_discovery"
    ELSE IF any_in(t, ImprovementWords)
         THEN "self_improvement"
         ELSE "deep_thought"

\* thought[:50], the details of the event.
DetailsLength == 50

details(t) == SubSeq(t, 1, Min(DetailsLength, Len(t)))

\* on_event: trigger = f"{event}: {details}"
trigger_label(event, d) == <<event, ": ">> \o d

-----------------------------------------------------------------------------
(* core/brain.py, core/self_editor.py and core/dialogue.py: the functions of
   a chat request.  Texts are sequences of characters; a backquote and the
   characters outside ASCII are written by code point. *)

\* "".join(fragments)
RECURSIVE concat(_)
concat(fragments) ==
    IF fragments = <<>> THEN <<>> ELSE Head(fragments) \o concat(Tail(fragments))

\* str(n) for n >= 0
RECURSIVE str_int(_)
str_int(n) ==
    LET digit == <<"0", "1", "2", "3", "4", "5", "6", "7", "8",
            "9">>[(n % 10) + 1]
    IN  IF n < 10 THEN <<digit>> ELSE Append(str_int(n \div 10), digit)

\* `token` stands in `text` at place i.
stands_at(text, token, i) ==
    i + Len(token) - 1 <= Len(text) /\ SubSeq(text, i,
            i + Len(token) - 1) = token

\* The first place at or after `from` where `token` stands in `text`, 0 if none.
first_at(text, token, from) ==
    LET at == {k \in from..(Len(text) - Len(token) + 1) :
                  SubSeq(text, k, k + Len(token) - 1) = token}
    IN  IF at = {} THEN 0 ELSE CHOOSE k \in at : \A j \in at : k <= j

\* What one call of the backends does: the primary (Anthropic) call answers
\* ("ok"), answers with an HTTP error status ("status"), raises after `cut`
\* fragments of its stream ("error") or has no API key ("no_key"); the
\* alternate (Ollama) call answers ("ok") or raises e ("error").
ollama_generate(b) ==
    IF b.alternate = "ok" THEN strip(concat(b.alt_text), WhiteSpace)
    ELSE brain_error(b.e)

\* ollama_stream: the tokens it yields.
ollama_stream(b) ==
    IF b.alternate = "ok" THEN SelectSeq(b.alt_text, LAMBDA f : f # <<>>)
    ELSE <<brain_error(b.e)>>

\* anthropic_generate, which brain.respond returns.
anthropic_generate(b) ==
    IF b.primary = "ok" THEN strip(concat(b.text), WhiteSpace)
    ELSE ollama_generate(b)

\* anthropic_stream, which brain.respond_stream yields from: an HTTP error
\* status gives a body with no "data: " line and so no token at all.
anthropic_stream(b) ==
    CASE b.primary = "ok" -> SelectSeq(b.text, LAMBDA f : f # <<>>)
      [] b.primary = "status" -> <<>>
      [] b.primary = "error" ->
            SelectSeq(SubSeq(b.text, 1, b.cut), LAMBDA f : f # <<>>)
                \o ollama_stream(b)
      [] b.primary = "no_key" -> ollama_stream(b)

\* The characters of a tool result shown in the report, and of the git
\* output kept in the metadata of a commit.
ResultCut == 200
OutputCut == 500

\* text[:n]
cut(text, n) == SubSeq(text, 1, Min(n, Len(text)))

\* Path.home() and self_editor.TENGWAR_ROOT
home == <<"/", "h">>
TENGWAR_ROOT == home \o <<"/", "t", "e", "n", "g", "w", "a", "r">>

\* execute_tools.expand: path.replace("~", home)
RECURSIVE expand(_)
expand(path) ==
    IF path = <<>> THEN <<>>
    ELSE (IF Head(path) = "~" THEN home ELSE <<Head(path)>>) \o expand(Tail(path))

\* self_editor.write_file(path, content) where _is_safe_path(path) is
\* env.safe and the write raises iff ~env.write_ok: the text returned and the
\* memory stored.
write_file(path, content, env) ==
    IF ~env.safe
    THEN [result |-> <<"[", "E", "r", "r", "o", "r", ":", " ", "A", "c", "c",
            "e", "s", "s", " ", "d", "e", "n", "i", "e", "d", " ", "U+2014",
            " ", "p", "a", "t", "h", " ", "'">>
                        \o path \o <<"'", " ", "i", "s", " ", "o", "u", "t",
                                "s", "i", "d", "e", " ", "a", "l", "l", "o",
                                "w", "e", "d", " ", "d", "i", "r", "e", "c",
                                "t", "o", "r", "i", "e", "s", "]">>,
          stored |-> <<>>]
    ELSE IF ~env.write_ok
    THEN [result |-> <<"[", "E", "r", "r", "o", "r", " ", "w", "r", "i", "t",
            "i", "n", "g", " ">> \o path \o <<":", " ", "e", "]">>,
          stored |-> <<>>]
    ELSE [result |-> <<"W", "r", "i", "t", "t", "e", "n",
            " ">> \o str_int(Len(content))
                        \o <<" ", "b", "y", "t", "e", "s", " ", "t", "o",
                                " ">> \o path,
          stored |-> <<[type |-> "self_edit",
                        content |-> <<"M", "o", "d", "i", "f", "i", "e", "d",
                                " ", "f", "i", "l", "e", ":",
                                " ">> \o path \o <<" ", "(">>
                                        \o str_int(Len(content)) \o <<" ", "b",
                                                "y", "t", "e", "s", ")">>,
                        importance |-> 80,
                        metadata |-> <<"file", path, "size", Len(content)>>]>>]

\* self_editor.git_status(): the output of git, env.status, unless the call
\* raises.
git_status(env) == IF env.git_ok THEN env.status ELSE <<"[", "G", "i", "t",
        " ", "e", "r", "r", "o", "r", ":", " ", "e", "]">>

\* self_editor.git_commit(message) where the git calls raise iff ~env.git_ok
\* and print env.commit.
git_commit(message, env) ==
    IF ~env.git_ok
    THEN [result |-> <<"[", "G", "i", "t", " ", "e", "r", "r", "o", "r", ":",
            " ", "e", "]">>, stored |-> <<>>]
    ELSE [result |-> env.commit,
          stored |-> <<[type |-> "self_edit",
                        content |-> <<"G", "i", "t", " ", "c", "o", "m", "m",
                                "i", "t", " ", "i", "n", " ">> \o TENGWAR_ROOT
                                        \o <<":", " ">> \o message,
                        importance |-> 90,
                        metadata |-> <<"output", cut(env.commit, OutputCut),
                                       "repo", TENGWAR_ROOT>>]>>]

\* The match of \[WRITE:([^\]]+)\](.*?)\[/WRITE\] that starts at i: the
\* places of the first "]" and of the first "[/WRITE]" after it.
write_match(text, i) ==
    LET open == <<"[", "W", "R", "I", "T", "E", ":">>
        close == <<"[", "/", "W", "R", "I", "T", "E", "]">>
        j == first_at(text, <<"]">>, i + Len(open))
        k == IF j = 0 THEN 0 ELSE first_at(text, close, j + 1)
    IN  IF stands_at(text, open, i) /\ j > i + Len(open) /\ k > 0
        THEN [end |-> k + Len(close) - 1,
              path |-> SubSeq(text, i + Len(open), j - 1),
              content |-> SubSeq(text, j + 1, k - 1)]
        ELSE [end |-> 0, path |-> <<>>, content |-> <<>>]

\* do_write: one leading and one trailing newline of the content dropped.
write_content(c) ==
    LET c1 == IF c # <<>> /\ Head(c) = "\n" THEN Tail(c) ELSE c
    IN  IF c1 # <<>> /\ c1[Len(c1)] = "\n" THEN SubSeq(c1, 1,
            Len(c1) - 1) ELSE c1

do_write(m, env) ==
    LET path == expand(strip(m.path, WhiteSpace))
        w == write_file(path, write_content(m.content), env)
    IN  [end |-> m.end,
         repl |-> <<"U+2705", " ">> \o w.result,
         tool |-> [tool |-> "write", ok |-> ~startswith(w.result, <<"[", "E",
                 "r", "r", "o", "r">>),
                   result |-> w.result],
         stored |-> w.stored]

\* The match of \[GIT_STATUS\] at i, and do_git_status.
do_git_status(text, i, env) ==
    LET token == <<"[", "G", "I", "T", "_", "S", "T", "A", "T", "U", "S", "]">>
    IN  IF stands_at(text, token, i)
        THEN [end |-> i + Len(token) - 1,
              repl |-> <<"U+0060", "U+0060", "U+0060", "g", "i", "t",
                      "\n">> \o git_status(env) \o <<"\n", "U+0060", "U+0060",
                      "U+0060">>,
              tool |-> [tool |-> "git_status", ok |-> TRUE,
                        result |-> git_status(env)],
              stored |-> <<>>]
        ELSE [end |-> 0, repl |-> <<>>, tool |-> <<>>, stored |-> <<>>]

\* The match of \[GIT_COMMIT:([^\]]+)\] at i, and do_git_commit.
do_git_commit(text, i, env) ==
    LET open == <<"[", "G", "I", "T", "_", "C", "O", "M", "M", "I", "T", ":">>
        j == first_at(text, <<"]">>, i + Len(open))
        msg == strip(SubSeq(text, i + Len(open), j - 1), WhiteSpace)
        g == git_commit(msg, env)
    IN  IF stands_at(text, open, i) /\ j > i + Len(open)
        THEN [end |-> j,
              repl |-> <<"U+2705", " ", "C", "o", "m", "m", "i", "t", "t", "e",
                      "d", ":", " ">> \o msg \o <<"\n">> \o g.result,
              tool |-> [tool |-> "git_commit", ok |-> TRUE,
                      result |-> g.result],
              stored |-> g.stored]
        ELSE [end |-> 0, repl |-> <<>>, tool |-> <<>>, stored |-> <<>>]

\* The matches of the command `tool` at each place of the text.
tool_match(tool, text, i, env) ==
    CASE tool = "write" ->
            IF write_match(text, i).end > 0 THEN do_write(write_match(text, i),
                    env)
            ELSE [end |-> 0, repl |-> <<>>, tool |-> <<>>, stored |-> <<>>]
      [] tool = "git_status" -> do_git_status(text, i, env)
      [] tool = "git_commit" -> do_git_commit(text, i, env)

\* re.sub(pattern, do_tool, text) from place i on: the matches are taken from
\* left to right and do not overlap. The text written, the tool results in
\* the order of the calls and the memories the calls stored.
RECURSIVE re_sub(_, _, _, _)
re_sub(tool, text, i, env) ==
    LET starts == {k \in i..Len(text) : tool_match(tool, text, k, env).end > 0}
    IN  IF starts = {}
        THEN [text |-> SubSeq(text, i, Len(text)), results |-> <<>>,
              stored |-> <<>>]
        ELSE LET k == CHOOSE x \in starts : \A y \in starts : x <= y
                 m == tool_match(tool, text, k, env)
                 rest == re_sub(tool, text, m.end + 1, env)
             IN  [text |-> SubSeq(text, i, k - 1) \o m.repl \o rest.text,
                  results |-> <<m.tool>> \o rest.results,
                  stored |-> m.stored \o rest.stored]

\* The commands of execute_tools that the replies tried contain, in the order
\* execute_tools substitutes them.
ToolOrder == <<"write", "git_status", "git_commit">>

\* execute_tools(text): the rewritten text, the tool results and the
\* memories the tools stored, in the order they were stored.
RECURSIVE execute_from(_, _, _)
execute_from(k, acc, env) ==
    IF k > Len(ToolOrder) THEN acc
    ELSE CHOOSE out \in
            {execute_from(k + 1,
                          [text |-> r.text,
                                  results |-> acc.results \o r.results,
                           stored |-> acc.stored \o r.stored],
                          env) :
                r \in {re_sub(ToolOrder[k], acc.text, 1, env)}} : TRUE

execute_tools(text, env) ==
    execute_from(1, [text |-> text, results |-> <<>>, stored |-> <<>>], env)

\* metadata={"tools_used": [...]} if tool_results else None; None is <<>>.
tools_metadata(results) ==
    IF results = <<>> THEN <<>>
    ELSE <<"tools_used", [i \in 1..Len(results) |-> results[i].tool]>>

\* The lines handle_message_stream yields after the tools ran.
tool_yields(results) ==
    IF results = <<>> THEN <<>>
    ELSE <<<<"\n", "\n", "-", "-", "-", "\n">>>>
            \o [i \in 1..Len(results) |->
                    <<IF results[i].ok THEN "U+2705" ELSE "U+274C">>
                        \o <<" ", "U+0060">> \o <<results[i].tool>>
                        \o <<"U+0060", " ", "U+2192",
                                " ">> \o cut(results[i].result, ResultCut)
                        \o <<"\n">>]

\* The praise and frustration words of handle_message.
PraiseWords == {<<"t", "h", "a", "n", "k", "s">>, <<"g", "r", "e", "a", "t">>,
        <<"a", "w", "e", "s", "o", "m", "e">>, <<"p", "e", "r", "f", "e", "c",
        "t">>, <<"l", "o", "v", "e">>}
FrustrationWords == {<<"f", "r", "u", "s", "t", "r", "a", "t", "e", "d">>,
        <<"a", "n", "n", "o", "y", "e", "d">>, <<"b", "r", "o", "k", "e",
        "n">>, <<"w", "r", "o", "n", "g">>, <<"h", "a", "t", "e">>}

\* The event handle_message raises for the user's words, None if none.
sentiment_event(user_message) ==
    IF any_in(user_message, PraiseWords) THEN "user_praise"
    ELSE IF any_in(user_message, FrustrationWords) THEN "user_frustration"
    ELSE None

-----------------------------------------------------------------------------
(* Values of the variables an operation leaves alone *)

NoResult == [op |-> "none", arg |-> None, query |-> <<>>, limit |-> 0,
             rows |-> <<>>, id |-> 0, error |-> FALSE, value |-> 0,
             history |-> <<>>]

NoHist == [ids |-> <<>>, clamped |-> {}, wiped |-> FALSE, accepted |-> <<>>,
           stop_in_flight |-> FALSE, chat_base |-> 0,
           bcast_initial |-> {}, before |-> EmotionalState]

NoBackend == [pool |-> 0, slops |-> 0, failures |-> 0]

\* No chat request in flight.
NoChat == [pc |-> "idle", variant |-> "none", user_message |-> <<>>,
           reply |-> <<>>, pos |-> 0, full_response |-> <<>>, results |-> <<>>,
           yields |-> <<>>, out |-> <<>>]

\* No call of broadcast() in flight.
NoBcast == [pc |-> "idle", msg |-> 0, size |-> 0, members |-> {}, visited |-> {},
            current |-> None, disconnected |-> {}]

ChatIdle ==
    /\ current_thread = None
    /\ thread_seq = 0
    /\ chat = NoChat

WsIdle ==
    /\ connected_clients = {}
    /\ bcast = NoBcast
    /\ sockets = <<>>

ServerIdle == ChatIdle /\ WsIdle

DaemonIdle ==
    /\ running = FALSE
    /\ paused = FALSE
    /\ thought_count = 0
    /\ recent_thought_hashes = <<>>
    /\ pc = "not_started"
    /\ thought = <<>>
    /\ cancelled = FALSE
    /\ delivered = <<>>
    /\ backend = NoBackend

StoreIdle ==
    /\ memories = <<>>
    /\ mem_seq = 0
    /\ clock = 0
    /\ markers = <<>>

-----------------------------------------------------------------------------
(* The emotion engine alone: any sequence of on_event and tick calls *)

\* Calls of on_event and tick in one run.
MaxEmoOps == 3

\* Elapsed seconds between two ticks: none, under the cap and over the cap of
\* 10% (360 s).
DtSet == {0, 90, 180, 7200}

RECURSIVE repeat_event(_, _, _)
repeat_event(s, event, n) ==
    IF n = 0 THEN s ELSE repeat_event(on_event_state(s, event), event, n - 1)

\* _load_latest: the engine starts from the defaults, or from the snapshot an
\* earlier process left (here: after five long_silence events).
HydratedStates == {EmotionalState, repeat_event(EmotionalState, "long_silence", 5)}

InitEmo ==
    /\ state \in HydratedStates
    /\ snapshots = IF state = EmotionalState THEN <<>>
                   ELSE save(<<>>, state, "long_silence")
    /\ StoreIdle
    /\ DaemonIdle
    /\ ServerIdle
    /\ result = NoResult
    /\ ops = 0
    /\ hist = NoHist

\* EmotionEngine.on_event(event): the deltas, the clamp, the snapshot.
EmoOnEvent(event) ==
    /\ ops < MaxEmoOps
    /\ state' = on_event_state(state, event)
    /\ snapshots' = save(snapshots, state', event)
    /\ ops' = ops + 1
    /\ hist' = [hist EXCEPT !.clamped = @ \cup Overshoot(event_deltas(state, event))]
    /\ result' = [NoResult EXCEPT !.op = "on_event", !.arg = event]
    /\ UNCHANGED <<memories, mem_seq, clock, markers>>
    /\ UNCHANGED <<daemonVars, serverVars>>

\* EmotionEngine.on_event(event) when the INSERT or the commit of save raises:
\* the exception leaves on_event, no row is written.
EmoOnEventSaveFails(event) ==
    /\ ops < MaxEmoOps
    /\ state' = on_event_save_fails(state, event)
    /\ ops' = ops + 1
    /\ hist' = [hist EXCEPT !.clamped = @ \cup Overshoot(event_deltas(state, event)),
                            !.before = state]
    /\ result' = [NoResult EXCEPT !.op = "on_event", !.arg = event,
                                  !.error = TRUE]
    /\ UNCHANGED <<snapshots, memories, mem_seq, clock, markers>>
    /\ UNCHANGED <<daemonVars, serverVars>>

\* EmotionEngine.tick() after dt seconds: decay, no snapshot.
EmoTick(dt) ==
    /\ ops < MaxEmoOps
    /\ state' = decay(state, dt)
    /\ ops' = ops + 1
    /\ result' = [NoResult EXCEPT !.op = "tick", !.limit = dt]
    /\ UNCHANGED <<snapshots, memories, mem_seq, clock, markers, hist>>
    /\ UNCHANGED <<daemonVars, serverVars>>

NextEmo ==
    \/ \E event \in Events : EmoOnEvent(event)
    \/ \E event \in Events : EmoOnEventSaveFails(event)
    \/ \E dt \in DtSet : EmoTick(dt)

SpecEmo == InitEmo /\ [][NextEmo]_vars

\* C1: after every on_event (known or unknown event name) and every decay,
\* each of the seven dimensions lies within [0, 1].
C1_ClampInvariant == InRange(state) /\ \A i \in 1..Len(snapshots) : InRange(snapshots[i].state)

\* Deltas took a dimension above 1.0 and (in another call or the same) one
\* below 0.0, and a decay followed.
C1_Witness ==
    /\ hist.clamped = {"low", "high"}
    /\ result.op = "tick"

\* C24: on_event with a name outside the event table raises nothing, leaves
\* the vector as it was and appends no snapshot.
C24_UnknownEventNoOp ==
    [][(result'.op = "on_event" /\ result'.arg \notin KnownEvents) =>
          /\ ~result'.error
          /\ state' = state
          /\ snapshots' = snapshots]_vars

\* C25: every step that changes the vector (an event or a tick, the snapshot
\* being written without error) appends one snapshot: its values are the
\* vector after the step, its trigger the label of the event.
C25_SnapshotOnMutation ==
    [][(state' # state /\ ~result'.error) =>
          /\ Len(snapshots') = Len(snapshots) + 1
          /\ Last(snapshots').state = state'
          /\ result'.op = "on_event" => Last(snapshots').trigger = result'.arg]_vars

\* C26: when save raises during on_event(event), the vector holds the deltas
\* of the event, clamped, and no snapshot was written.
C26_UpdateSurvivesSaveFailure ==
    [][(result'.op = "on_event" /\ result'.error) =>
          /\ state' = clamp(event_deltas(state, result'.arg))
          /\ snapshots' = snapshots]_vars

\* save has raised during an event that changed the vector and was clamped.
C26_Witness ==
    /\ result.op = "on_event"
    /\ result.error
    /\ state # hist.before
    /\ snapshots # <<>>
    /\ hist.clamped # {}

-----------------------------------------------------------------------------
(* The memory log alone: appends, the seeding script and the queries *)

\* Rows the table holds at once.
MaxRows == 3

\* Appends in one run (the largest rowid handed out).
MaxRowid == 5

\* Readings of the clock in one run.
MaxClock == 1

\* Seeds the seeding script stores (of MEMORY_SEEDS).
NumSeeds == 2

\* The largest LIMIT asked for.
MaxLimit == 2

\* What the callers store: thoughts of the daemon and the two turns of a
\* conversation.
MemInputs ==
    {[type |-> "thought", content |-> <<"a", " ", "b">>, thread_id |-> None,
      importance |-> 90],
     [type |-> "thought", content |-> <<"B", " ", "A">>, thread_id |-> None,
      importance |-> 90],
     [type |-> "user_message", content |-> <<"a", "_", "b">>, thread_id |-> "t1",
      importance |-> 70],
     [type |-> "response", content |-> <<"a", "x", "b">>, thread_id |-> "t1",
      importance |-> 50]}

QueryTypes == {"thought", None}

QueryThreads == {"t1"}

\* "a b", "a_b" and a query of white space only.
Queries == {<<"a", " ", "b">>, <<"a", "_", "b">>, <<" ">>}

Limits == 1..MaxLimit

InitMem ==
    /\ state = EmotionalState
    /\ snapshots = <<>>
    /\ StoreIdle
    /\ DaemonIdle
    /\ ServerIdle
    /\ result = NoResult
    /\ ops = 0
    /\ hist = NoHist

\* Time passes.
MemTick ==
    /\ clock < MaxClock
    /\ clock' = clock + 1
    /\ UNCHANGED <<state, snapshots, memories, mem_seq, markers, result, ops, hist>>
    /\ UNCHANGED <<daemonVars, serverVars>>

\* store_memory(type, content, thread_id=..., importance=...)
MemStore(in) ==
    /\ Len(memories) < MaxRows
    /\ mem_seq < MaxRowid
    /\ memories' = store_memory(memories, mem_seq, clock, in.type, in.content,
                                in.thread_id, in.importance, 0)
    /\ mem_seq' = Max(mem_seq, Last(memories').id)
    /\ result' = [NoResult EXCEPT !.op = "store", !.id = Last(memories').id]
    /\ hist' = [hist EXCEPT !.ids = Append(@, Last(memories').id)]
    /\ UNCHANGED <<state, snapshots, clock, markers, ops>>
    /\ UNCHANGED <<daemonVars, serverVars>>

RECURSIVE seed_rows(_, _, _, _)
\* The loop of seed_identity.main(): one store_memory per seed.
seed_rows(rows, seq, t, i) ==
    IF i > NumSeeds THEN rows
    ELSE LET stored == store_memory(rows, seq, t, "thought", MEMORY_SEEDS[i],
                                    None, 80, i)
         IN  seed_rows(stored, Max(seq, Last(stored).id), t, i + 1)

\* seed_identity.main(): DELETE FROM memories, then the seeds.
MemSeed ==
    /\ mem_seq + NumSeeds <= MaxRowid
    /\ memories' = seed_rows(<<>>, mem_seq, clock, 1)
    /\ mem_seq' = Max(mem_seq, Last(memories').id)
    /\ result' = [NoResult EXCEPT !.op = "seed"]
    /\ hist' = [hist EXCEPT
                   !.ids = @ \o [i \in 1..NumSeeds |-> memories'[i].id],
                   !.wiped = @ \/ memories # <<>>]
    /\ UNCHANGED <<state, snapshots, clock, markers, ops>>
    /\ UNCHANGED <<daemonVars, serverVars>>

\* get_recent_memories(type, limit)
MemRecent(type, limit) ==
    /\ \E rows \in get_recent_memories(memories, type, limit) :
          result' = [NoResult EXCEPT !.op = "recent", !.arg = type,
                                     !.limit = limit, !.rows = rows]
    /\ UNCHANGED <<state, snapshots, memories, mem_seq, clock, markers, ops, hist>>
    /\ UNCHANGED <<daemonVars, serverVars>>

\* get_conversation_history(thread_id, limit)
MemHistory(thread_id, limit) ==
    /\ \E rows \in get_conversation_history(memories, thread_id, limit) :
          result' = [NoResult EXCEPT !.op = "history", !.arg = thread_id,
                                     !.limit = limit, !.rows = rows]
    /\ UNCHANGED <<state, snapshots, memories, mem_seq, clock, markers, ops, hist>>
    /\ UNCHANGED <<daemonVars, serverVars>>

\* search_memories(query, limit)
MemSearch(query, limit) ==
    /\ IF search_raises(query)
       THEN result' = [NoResult EXCEPT !.op = "search", !.query = query,
                                       !.limit = limit, !.error = TRUE]
       ELSE \E rows \in search_memories(memories, query, limit) :
               result' = [NoResult EXCEPT !.op = "search", !.query = query,
                                          !.limit = limit, !.rows = rows]
    /\ UNCHANGED <<state, snapshots, memories, mem_seq, clock, markers, ops, hist>>
    /\ UNCHANGED <<daemonVars, serverVars>>

\* The log and what writes it: the callers of store_memory and the seeding
\* script.
NextLog ==
    \/ MemTick
    \/ \E in \in MemInputs : MemStore(in)
    \/ MemSeed

SpecLog == InitMem /\ [][NextLog]_vars

\* The log and its queries.
NextMem ==
    \/ MemTick
    \/ \E in \in MemInputs : MemStore(in)
    \/ \E type \in QueryTypes, limit \in Limits : MemRecent(type, limit)
    \/ \E thread_id \in QueryThreads, limit \in Limits : MemHistory(thread_id, limit)
    \/ \E query \in Queries, limit \in Limits : MemSearch(query, limit)

SpecMem == InitMem /\ [][NextMem]_vars

\* C2: the memory log is append-only: no operation changes or removes a row
\* once appended.
C2_AppendOnly ==
    [][\A i \in 1..Len(memories) :
          i <= Len(memories') /\ memories'[i] = memories[i]]_vars

\* C3: every append returns an identifier greater than every identifier
\* returned before, so two rows of the table always differ under
\* (timestamp, identifier), equal timestamps included.
C3_IdsIncrease ==
    /\ \A i, j \in 1..Len(hist.ids) : i < j => hist.ids[i] < hist.ids[j]
    /\ \A i, j \in 1..Len(memories) :
          i # j => <<memories[i].timestamp, memories[i].id>>
                       # <<memories[j].timestamp, memories[j].id>>
    /\ \A i \in 1..Len(memories) : memories[i].id <= mem_seq

\* Rows were deleted, appends followed, and two rows carry one timestamp.
C3_Witness ==
    /\ hist.wiped
    /\ \E i, j \in 1..Len(memories) :
          i < j /\ memories[i].timestamp = memories[j].timestamp

\* The newest-first listing of the `limit` most recently appended rows of
\* `match`.
NewestFirst(match, limit) == Listings(match, LAMBDA a, b : a.id > b.id, limit)

\* C4: recent(kind, limit) returns exactly the min(limit, count) most
\* recently appended rows of the kind, newest first, equal timestamps
\* included.
C4_RecentNewestFirst ==
    result.op = "recent" =>
        result.rows \in NewestFirst({r \in Range(memories) :
                                        result.arg = None \/ r.type = result.arg},
                                    result.limit)

\* C5: search(query, limit) with at least one token returns only rows whose
\* content contains every token (letter case ignored), at most `limit` rows,
\* by importance descending and, at equal importance, the later-appended
\* row first.
C5_SearchContract ==
    (result.op = "search" /\ split(result.query) # <<>>) =>
        /\ ~result.error
        /\ Len(result.rows) <= result.limit
        /\ \A i \in 1..Len(result.rows) :
              \A w \in Range(split(result.query)) :
                  ContainsNoCase(result.rows[i].content, w)
        /\ \A i, j \in 1..Len(result.rows) :
              i < j => \/ result.rows[i].importance > result.rows[j].importance
                       \/ /\ result.rows[i].importance = result.rows[j].importance
                          /\ result.rows[i].id > result.rows[j].id

\* C37: search(query, limit) returns at most `limit` records for every query,
\* one of white space only included, and never raises.
C37_SearchTotal ==
    result.op = "search" => ~result.error /\ Len(result.rows) <= result.limit

\* C6: by_thread(thread_id, limit) returns only rows of the thread, at most
\* `limit` of them, oldest first: in append order and in timestamp order.
C6_HistoryAscending ==
    result.op = "history" =>
        /\ Len(result.rows) <= result.limit
        /\ \A i \in 1..Len(result.rows) :
              /\ result.rows[i] \in Range(memories)
              /\ result.rows[i].thread_id = result.arg
        /\ \A i, j \in 1..Len(result.rows) :
              i < j => /\ result.rows[i].id < result.rows[j].id
                       /\ ~iso_less(result.rows[j].timestamp,
                                    result.rows[i].timestamp)

\* A thread's history of two rows that carry the same timestamp, in a table
\* that also holds rows outside the thread.
C6_Witness ==
    /\ result.op = "history"
    /\ Len(result.rows) = 2
    /\ result.rows[1].timestamp = result.rows[2].timestamp
    /\ \E r \in Range(memories) : r.thread_id # result.arg

-----------------------------------------------------------------------------
(* The thought daemon: ThoughtDaemon.run() as a task of the server's event   *)
(* loop. A step of the task runs from one await to the next.                 *)

\* Thoughts accepted in one run, in the short runs with failures, pause and
\* stop, and in the long runs that fill the dedup window.
MaxThoughts == 2

MaxLongRun == 12

\* Slop replies, and exceptions of the storage or the broadcast, in one run.
MaxSlops == 2

MaxFailures == 1

\* Seconds between two ticks of the emotion engine (the daemon sleeps 5 to
\* 35 seconds between two thoughts).
DaemonDts == {20}

\* The texts the backend generates, in the order it first produces them.
POOL ==
    << <<"a", " ", "b", " ", "c">>,
       <<"a", " ", "b", " ", "d", " ", "e">>,
       <<"a", " ", "b", " ", "d">>,
       <<"A", " ", "B", " ", "C">>,
       <<"\"", "i", "d", "e", "a", ".", " ", "x", "\"">>,
       <<"f", "i", "x", " ", "i", "t">>,
       <<"f">>,
       <<"g">>,
       <<"h">>,
       <<"j">>,
       <<"k">>,
       <<"l">>,
       <<"w">>,
       <<"y">> >>

\* Texts the backend may produce again once it has produced them.
MaxRepeats == 4

\* What ollama_generate returns when the HTTP call raises: a timeout (empty
\* message) or a refused connection.
ErrorReplies ==
    { brain_error(<<>>),
      brain_error(<<"A", "l", "l", " ", "c", "o", "n", "n", "e", "c", "t", "i", "o", "n", " ", "a", "t", "t", "e", "m", "p", "t", "s", " ", "f", "a", "i", "l", "e", "d">>) }

\* Replies without a thought: no "response" in the answer, white space, an
\* empty pair of quotes.
EmptyReplies == { <<>>, <<" ">>, <<"\"", "\"">> }

SlopReplies == { <<"C", "e", "r", "t", "a", "i", "n", "l", "y", "!", " ", "x">> }

\* Every text brain.think may return.
RawReplies == Range(POOL) \cup ErrorReplies \cup EmptyReplies \cup SlopReplies

\* _generate_thought for each of them, and what run() computes from each
\* thought, evaluated once.
generated == [raw \in RawReplies |-> generate_thought(raw)]

cycle_facts ==
    [t \in UNION {generated[raw] : raw \in RawReplies} |->
        [usable |-> usable(t), words |-> thought_words(t),
         importance |-> assess_importance(t), event |-> thought_event(t),
         trigger |-> trigger_label(thought_event(t), details(t))]]

\* The replies brain.think may give in the current cycle.
Replies ==
    {[kind |-> "text", raw |-> POOL[i], pool |-> i] :
        i \in {j \in 1..Len(POOL) : j = backend.pool + 1
                                       \/ j <= Min(backend.pool, MaxRepeats)}}
    \cup {[kind |-> "error", raw |-> e, pool |-> 0] : e \in ErrorReplies}
    \cup {[kind |-> "empty", raw |-> e, pool |-> 0] : e \in EmptyReplies}
    \cup {[kind |-> "slop", raw |-> e, pool |-> 0] :
            e \in IF backend.slops < MaxSlops THEN SlopReplies ELSE {}}

\* The places where run() awaits.
Sleeps == {"sleep_paused", "sleep_dup", "sleep_interval", "sleep_error"}

Awaits == Sleeps \cup {"generate"}

\* Awaits inside the try block of run(): CancelledError is caught there.
Guarded == {"generate", "sleep_dup", "sleep_interval"}

\* Where run() would go if an exception left the loop (a faulty variant of
\* after_exception).
after_exception_uncaught == "dead"

\* Where run() goes when `except Exception` catches: the cooldown sleep.
after_exception == "sleep_error"

\* The calls of an accepted cycle that may raise.
Failures == {"store_memory", "save", "broadcast"}

InitDaemon ==
    /\ state = EmotionalState
    /\ snapshots = <<>>
    /\ StoreIdle
    /\ DaemonIdle
    /\ ServerIdle
    /\ result = NoResult
    /\ ops = 0
    /\ hist = NoHist

\* The loop test of run() and what follows it up to the next await.
LoopTop ==
    IF ~running
    THEN /\ pc' = "stopped"
         /\ markers' = Append(markers, "daemon_stop")
    ELSE /\ pc' = IF paused THEN "sleep_paused" ELSE "generate"
         /\ UNCHANGED markers

\* lifespan creates the task; run() up to its first await.
Start ==
    /\ pc = "not_started"
    /\ running' = TRUE
    /\ recent_thought_hashes' = <<>>
    /\ markers' = Append(markers, "daemon_start")
    /\ pc' = IF paused THEN "sleep_paused" ELSE "generate"
    /\ result' = [NoResult EXCEPT !.op = "start"]
    /\ UNCHANGED <<state, snapshots, memories, mem_seq, clock, paused,
                   thought_count, thought, cancelled, delivered, backend, ops,
                   hist>>
    /\ UNCHANGED serverVars

\* brain.think returns r.raw, _generate_thought returns t, and run() skips
\* the cycle because t is empty or an error text.
ReplyUnusable(r, t) ==
    /\ pc = "generate" /\ ~cancelled
    /\ ~cycle_facts[t].usable
    /\ thought' = t
    /\ pc' = "sleep_interval"
    /\ backend' = [backend EXCEPT !.pool = Max(@, r.pool),
                                  !.slops = @ + (IF r.kind = "slop" THEN 1 ELSE 0)]
    /\ result' = [NoResult EXCEPT !.op = "reply", !.arg = r.kind]
    /\ UNCHANGED <<state, snapshots, memories, mem_seq, clock, markers, running,
                   paused, thought_count, recent_thought_hashes, cancelled,
                   delivered, ops, hist>>
    /\ UNCHANGED serverVars

\* ... run() finds t too similar to a recent thought and sleeps 5 seconds.
ReplyDuplicate(r, t) ==
    /\ pc = "generate" /\ ~cancelled
    /\ cycle_facts[t].usable
    /\ is_duplicate(cycle_facts[t].words, recent_thought_hashes)
    /\ thought' = t
    /\ pc' = "sleep_dup"
    /\ backend' = [backend EXCEPT !.pool = Max(@, r.pool),
                                  !.slops = @ + (IF r.kind = "slop" THEN 1 ELSE 0)]
    /\ result' = [NoResult EXCEPT !.op = "reply", !.arg = r.kind]
    /\ UNCHANGED <<state, snapshots, memories, mem_seq, clock, markers, running,
                   paused, thought_count, recent_thought_hashes, cancelled,
                   delivered, ops, hist>>
    /\ UNCHANGED serverVars

\* ... run() accepts t: window, counter, store_memory, tick, on_event,
\* broadcast, in this order; `fail` is the call that raises, if one does.
ReplyAccepted(r, t, fail, dt, limit) ==
    /\ pc = "generate" /\ ~cancelled
    /\ cycle_facts[t].usable
    /\ ~is_duplicate(cycle_facts[t].words, recent_thought_hashes)
    /\ thought_count < limit
    /\ fail \in Failures => backend.failures < MaxFailures
    /\ thought' = t
    /\ recent_thought_hashes' = remember(recent_thought_hashes, cycle_facts[t].words)
    /\ thought_count' = thought_count + 1
    /\ clock' = clock + TicksPerSecond
    /\ IF fail = "store_memory"
       THEN UNCHANGED <<memories, mem_seq, state, snapshots, delivered>>
       ELSE /\ memories' = store_memory(memories, mem_seq, clock', "thought", t,
                                        None, cycle_facts[t].importance,
                                        thought_count')
            /\ mem_seq' = Max(mem_seq, Last(memories').id)
            /\ state' = on_event_state(decay(state, dt), cycle_facts[t].event)
            /\ IF fail = "save"
               THEN UNCHANGED <<snapshots, delivered>>
               ELSE /\ snapshots' = save(snapshots, state', cycle_facts[t].trigger)
                    /\ IF fail = "broadcast"
                       THEN UNCHANGED delivered
                       ELSE delivered' = Append(delivered,
                                [content |-> t, thought_number |-> thought_count'])
    /\ pc' = IF fail \in Failures THEN after_exception ELSE "sleep_interval"
    /\ backend' = [backend EXCEPT !.pool = Max(@, r.pool),
                                  !.slops = @ + (IF r.kind = "slop" THEN 1 ELSE 0),
                                  !.failures = @ + (IF fail \in Failures THEN 1 ELSE 0)]
    /\ result' = [NoResult EXCEPT !.op = "reply", !.arg = r.kind]
    /\ hist' = [hist EXCEPT !.accepted = Append(@, cycle_facts[t].words)]
    /\ UNCHANGED <<markers, running, paused, cancelled, ops>>
    /\ UNCHANGED serverVars

\* A sleep of run() is over: back to the loop test. The local `thought` is
\* dead from here on, until the next reply assigns it.
SleepEnds ==
    /\ pc \in Sleeps /\ ~cancelled
    /\ LoopTop
    /\ thought' = <<>>
    /\ result' = [NoResult EXCEPT !.op = "sleep", !.arg = pc]
    /\ UNCHANGED <<state, snapshots, memories, mem_seq, clock, running, paused,
                   thought_count, recent_thought_hashes, cancelled, delivered,
                   backend, ops, hist>>
    /\ UNCHANGED serverVars

\* The await of run() raises CancelledError: caught inside the try block
\* (break, then the daemon_stop marker), not caught outside it.
CancelledError ==
    /\ cancelled /\ pc \in Awaits
    /\ cancelled' = FALSE
    /\ IF pc \in Guarded
       THEN /\ pc' = "stopped"
            /\ markers' = Append(markers, "daemon_stop")
       ELSE /\ pc' = "dead"
            /\ UNCHANGED markers
    /\ thought' = <<>>
    /\ result' = [NoResult EXCEPT !.op = "cancelled", !.arg = pc]
    /\ UNCHANGED <<state, snapshots, memories, mem_seq, clock, running, paused,
                   thought_count, recent_thought_hashes, delivered, backend, ops,
                   hist>>
    /\ UNCHANGED serverVars

\* ThoughtDaemon.pause()
pause ==
    /\ ~paused
    /\ paused' = TRUE
    /\ result' = [NoResult EXCEPT !.op = "pause"]
    /\ UNCHANGED <<state, snapshots, memories, mem_seq, clock, markers, running,
                   thought_count, recent_thought_hashes, pc, thought, cancelled,
                   delivered, backend, ops, hist>>
    /\ UNCHANGED serverVars

\* A resume that starts the run anew: window cleared, daemon_start marker
\* written (a faulty variant of resume).
resume_restart ==
    /\ paused
    /\ paused' = FALSE
    /\ recent_thought_hashes' = <<>>
    /\ markers' = Append(markers, "daemon_start")
    /\ result' = [NoResult EXCEPT !.op = "resume"]
    /\ UNCHANGED <<state, snapshots, memories, mem_seq, clock, running,
                   thought_count, pc, thought, cancelled, delivered, backend,
                   ops, hist>>
    /\ UNCHANGED serverVars

\* ThoughtDaemon.resume()
resume ==
    /\ paused
    /\ paused' = FALSE
    /\ result' = [NoResult EXCEPT !.op = "resume"]
    /\ UNCHANGED <<state, snapshots, memories, mem_seq, clock, markers, running,
                   thought_count, recent_thought_hashes, pc, thought, cancelled,
                   delivered, backend, ops, hist>>
    /\ UNCHANGED serverVars

\* ThoughtDaemon.stop(): the flag, nothing else.
stop ==
    /\ running
    /\ running' = FALSE
    /\ result' = [NoResult EXCEPT !.op = "stop"]
    /\ hist' = [hist EXCEPT !.stop_in_flight = @ \/ pc = "generate"]
    /\ UNCHANGED <<state, snapshots, memories, mem_seq, clock, markers, paused,
                   thought_count, recent_thought_hashes, pc, thought, cancelled,
                   delivered, backend, ops>>
    /\ UNCHANGED serverVars

\* lifespan at shutdown: thought_daemon.stop(), then daemon_task.cancel().
lifespan_shutdown ==
    /\ pc \in Awaits /\ ~cancelled
    /\ running' = FALSE
    /\ cancelled' = TRUE
    /\ result' = [NoResult EXCEPT !.op = "shutdown"]
    /\ hist' = [hist EXCEPT !.stop_in_flight = @ \/ (running /\ pc = "generate")]
    /\ UNCHANGED <<state, snapshots, memories, mem_seq, clock, markers, paused,
                   thought_count, recent_thought_hashes, pc, thought, delivered,
                   backend, ops>>
    /\ UNCHANGED serverVars

\* The steps of the task of run().
TaskStep ==
    \/ Start
    \/ \E r \in Replies : \E t \in generated[r.raw] : ReplyUnusable(r, t)
    \/ \E r \in Replies : \E t \in generated[r.raw] : ReplyDuplicate(r, t)
    \/ \E r \in Replies : \E t \in generated[r.raw] :
          \E fail \in Failures \cup {"none"} : \E dt \in DaemonDts :
              ReplyAccepted(r, t, fail, dt, MaxThoughts)
    \/ SleepEnds
    \/ CancelledError

NextDaemon ==
    \/ TaskStep
    \/ pause
    \/ resume
    \/ stop
    \/ lifespan_shutdown

SpecDaemon == InitDaemon /\ [][NextDaemon]_vars

\* Every await of run() returns in the end: the backend answers, the sleeps
\* end, a requested cancellation is delivered.
SpecDaemonFair == SpecDaemon /\ WF_vars(TaskStep)

\* A long run that nothing interrupts: no pause, no stop, no exception.
NextLongRun ==
    \/ Start
    \/ \E r \in Replies : \E t \in generated[r.raw] : ReplyUnusable(r, t)
    \/ \E r \in Replies : \E t \in generated[r.raw] : ReplyDuplicate(r, t)
    \/ \E r \in Replies : \E t \in generated[r.raw] :
          \E dt \in DaemonDts : ReplyAccepted(r, t, "none", dt, MaxLongRun)
    \/ SleepEnds

SpecLongRun == InitDaemon /\ [][NextLongRun]_vars

\* A step in which run() receives the backend's reply and finishes the cycle.
ReplyStep == pc = "generate" /\ pc' # "generate" /\ result'.op = "reply"

\* The thought-kind records among the first n of the log.
ThoughtRecords(rows, n) == {i \in 1..n : rows[i].type = "thought"}

\* C39: between two cycles the counter of the daemon is the number of
\* thought records in the log, and each thought record holds as its
\* thought_number the number of thought records up to it, also after a cycle
\* whose append or whose snapshot failed.
C39_CounterMatchesLog ==
    /\ thought_count = Cardinality(ThoughtRecords(memories, Len(memories)))
    /\ \A i \in ThoughtRecords(memories, Len(memories)) :
          memories[i].metadata = Cardinality(ThoughtRecords(memories, i))

\* C36: in a cycle whose candidate is slop, the thought run() goes on with is
\* a seed memory, and that substitute passes the overlap check like any
\* thought: over the threshold it is discarded (nothing stored, counted or
\* remembered), otherwise it is counted and remembered.
C36_SubstituteChecked ==
    [][(ReplyStep /\ result'.arg = "slop") =>
          /\ thought' \in Range(MEMORY_SEEDS)
          /\ IF is_duplicate(thought_words(thought'), recent_thought_hashes)
             THEN /\ pc' = "sleep_dup"
                  /\ UNCHANGED <<memories, thought_count, recent_thought_hashes,
                                 delivered>>
             ELSE /\ pc' \in {"sleep_interval", after_exception}
                  /\ thought_count' = thought_count + 1
                  /\ recent_thought_hashes'
                        = remember(recent_thought_hashes, thought_words(thought'))]_vars

\* A slop candidate was replaced by a seed the daemon had thought shortly
\* before, and the substitute was discarded.
C36_Witness ==
    /\ result.op = "reply" /\ result.arg = "slop"
    /\ pc = "sleep_dup"
    /\ thought \in Range(MEMORY_SEEDS)
    /\ thought_count > 0

\* The overlap (intersection over union) of two word sets exceeds 0.4.
TooSimilar(a, b) ==
    Cardinality(a \cup b) > 0
        /\ 5 * Cardinality(a \cap b) > 2 * Cardinality(a \cup b)

\* The candidate is too similar to one of the last 10 accepted thoughts of
\* the run.
NearRepeat(words) ==
    \E i \in 1..Len(hist.accepted) :
        i > Len(hist.accepted) - 10 /\ TooSimilar(words, hist.accepted[i])

\* C7: within one run a candidate thought is persisted only if its word-set
\* overlap with each of the last 10 accepted thoughts is at most 0.4; a
\* candidate whose overlap with one of them exceeds 0.4 is rejected and not
\* persisted, and a candidate with low overlap is accepted and appended to
\* the window.
C7_DedupWindow ==
    [][(ReplyStep /\ thought' # <<>> /\ ~startswith(thought', BrainErrorPrefix)) =>
          LET words == cycle_facts[thought'].words
          IN  /\ NearRepeat(words) =>
                    /\ memories' = memories
                    /\ recent_thought_hashes' = recent_thought_hashes
                    /\ hist'.accepted = hist.accepted
              /\ ~NearRepeat(words) =>
                    /\ recent_thought_hashes' # <<>>
                    /\ Last(recent_thought_hashes') = words
                    /\ hist'.accepted = Append(hist.accepted, words)
                    /\ pc' = "sleep_interval" =>
                          /\ Len(memories') = Len(memories) + 1
                          /\ Last(memories').type = "thought"
                          /\ Last(memories').content = thought']_vars

\* A thought accepted before was accepted again, once ten other thoughts had
\* pushed it out of the comparison, after a near-repeat was rejected inside
\* the window.
C7_Witness ==
    /\ result.op = "reply" /\ pc = "sleep_interval"
    /\ Len(hist.accepted) > 10
    /\ \E i \in 1..(Len(hist.accepted) - 1) : hist.accepted[i] = Last(hist.accepted)
    /\ Len(memories) = Len(hist.accepted)

C9_KeepsGenerating ==
    (<>[](running /\ ~paused /\ ~cancelled))
        => ([]<>(pc = "generate") /\ []<>(pc \in Sleeps))

\* A new attempt is in flight after a cycle that raised an exception.
C9_Witness ==
    /\ pc = "generate" /\ running /\ ~paused /\ ~cancelled
    /\ result.op = "sleep" /\ result.arg = "sleep_error"
    /\ backend.failures > 0

\* C10: when stop is invoked while a generation call is in flight, the call
\* is abandoned: afterwards no thought record is appended, no emotion event
\* is raised and no subscriber is notified.
C10_StopAbandons ==
    [][hist.stop_in_flight =>
          UNCHANGED <<memories, state, snapshots, delivered>>]_vars

\* C29: once a run that wrote the daemon_start marker is stopped (the flag
\* cleared by stop(), with or without the cancellation of the task), the
\* daemon_stop marker is written in the end, wherever the loop was waiting.
C29_StopMarkerWritten ==
    ((\E i \in 1..Len(markers) : markers[i] = "daemon_start") /\ ~running)
        ~> (\E i \in 1..Len(markers) : markers[i] = "daemon_stop")

\* C11: from the call of pause() until the call of resume() the daemon starts
\* no backend call, appends no thought record and notifies no subscriber,
\* and the loop stays alive.
C11_PauseSuspends ==
    [][(paused /\ paused') =>
          /\ memories' = memories
          /\ delivered' = delivered
          /\ pc' = "generate" => pc = "generate"
          /\ (running' /\ ~cancelled') => pc' \notin {"stopped", "dead"}]_vars

\* A step of pause(), of resume(), or the end of a sleep in the paused state
\* of a running daemon.
PauseResumeStep ==
    \/ result'.op = "pause" /\ ~paused /\ paused'
    \/ result'.op = "resume" /\ paused /\ ~paused'
    \/ result'.op = "sleep" /\ pc = "sleep_paused" /\ running /\ ~cancelled

\* C12: pause() followed by resume() loses no pacing state: the thought
\* counter, the dedup window, the emotional state and the running flag stay
\* as they were, and no daemon_start or daemon_stop marker is written.
C12_PauseKeepsState ==
    [][PauseResumeStep =>
          UNCHANGED <<thought_count, recent_thought_hashes, state, snapshots,
                      running, markers, memories, backend>>]_vars

\* A daemon that had accepted a thought was paused, slept in the paused
\* state, was resumed and is generating again.
C12_Witness ==
    /\ result.op = "sleep" /\ result.arg = "sleep_paused"
    /\ pc = "generate" /\ running /\ ~paused
    /\ thought_count > 0 /\ recent_thought_hashes # <<>>
    /\ markers = <<"daemon_start">>

-----------------------------------------------------------------------------
(* The wake delay of the daemon: ThoughtDaemon._compute_interval *)

\* ThoughtDaemon.__init__: self.min_interval, self.max_interval (seconds).
min_interval == 12
max_interval == 35

\* random.uniform(-3, 3): the largest jitter, in seconds.
JitterMax == 3

\* Delays are exact multiples of 1/IntervalUnit of a second: a level is a
\* multiple of 1/Unit and speed_factor halves the sum of two levels.
IntervalUnit == 2 * Unit

\* speed_factor = (s.excitement + s.curiosity) / 2, in 1/IntervalUnit.
speed_factor(s) == s.excitement + s.curiosity

\* base = self.max_interval - (self.max_interval - self.min_interval) * speed_factor
base_interval(s) ==
    max_interval * IntervalUnit - (max_interval - min_interval) * speed_factor(s)

\* The delay without the lower bound (a faulty variant of compute_interval).
compute_interval_unclamped(s, jitter) == base_interval(s) + jitter

\* return max(self.min_interval, base + jitter)
compute_interval(s, jitter) ==
    Max(min_interval * IntervalUnit, base_interval(s) + jitter)

\* Levels of excitement and curiosity tried: i/IntervalGrid of 1.0.
IntervalGrid == 4
\* Jitters tried: multiples of 1/JitterGrid of a second within [-3, 3].
JitterGrid == 2

IntervalLevels == {(i * Unit) \div IntervalGrid : i \in 0..IntervalGrid}
Jitters ==
    {(j * IntervalUnit) \div JitterGrid :
        j \in (0 - JitterMax * JitterGrid)..(JitterMax * JitterGrid)}

InitInterval ==
    /\ state \in {[EmotionalState EXCEPT !.excitement = e, !.curiosity = c] :
                     e \in IntervalLevels, c \in IntervalLevels}
    /\ snapshots = <<>>
    /\ StoreIdle
    /\ DaemonIdle
    /\ ServerIdle
    /\ result = NoResult
    /\ ops = 0
    /\ hist = NoHist

\* One call of _compute_interval with the jitter drawn by random.uniform.
ComputeInterval(jitter) ==
    /\ result' = [NoResult EXCEPT !.op = "compute_interval", !.arg = jitter,
                                   !.value = compute_interval(state, jitter)]
    /\ UNCHANGED <<emoVars, memVars, clock, markers, daemonVars, serverVars,
                   ops, hist>>

NextInterval == \E jitter \in Jitters : ComputeInterval(jitter)

SpecInterval == InitInterval /\ [][NextInterval]_vars

\* C20: the delay before jitter is max - (max - min) * (excitement +
\* curiosity) / 2, which is the minimum (12 s) at excitement = curiosity = 1.0
\* and the maximum (35 s) at excitement = curiosity = 0.0, and the delay
\* returned is never below the minimum, whatever the jitter in [-3, 3].
C20_IntervalBounds ==
    result.op = "compute_interval" =>
        /\ 35 * IntervalUnit - base_interval(state)
              = (35 - 12) * (state.excitement + state.curiosity)
        /\ (state.excitement = Unit /\ state.curiosity = Unit)
              => base_interval(state) = 12 * IntervalUnit
        /\ (state.excitement = 0 /\ state.curiosity = 0)
              => base_interval(state) = 35 * IntervalUnit
        /\ result.value >= 12 * IntervalUnit
        /\ result.value >= base_interval(state) + result.arg

\* The delay was computed at full excitement and curiosity with the lowest
\* jitter: base + jitter is 9 s and the minimum is returned.
C20_Witness ==
    /\ result.op = "compute_interval"
    /\ state.excitement = Unit /\ state.curiosity = Unit
    /\ result.arg = 0 - JitterMax * IntervalUnit
    /\ result.value = min_interval * IntervalUnit

-----------------------------------------------------------------------------
(* The chat: DialogueHandler behind POST /api/chat, POST /api/new-conversation
   and the chat messages of /ws *)

\* Chat requests in one run.
MaxChats == 2

\* str(uuid.uuid4())[:8]: the n-th identifier minted, each one new.
ThreadIds == <<"u1", "u2", "u3", "u4">>
uuid4(n) == ThreadIds[n]

\* The messages tried: none, a greeting, a praise.
ChatUserTexts == {<<>>, <<"h", "i">>, <<"t", "h", "a", "n", "k", "s">>}

\* str(e) of the exception of a refused connection.
ConnectError == <<"A", "l", "l", " ", "c", "o", "n", "n", "e", "c", "t", "i",
        "o", "n", " ", "a", "t", "t", "e", "m", "p", "t", "s", " ", "f", "a",
        "i", "l", "e", "d">>

\* What the backends do in the requests tried: a plain answer in two
\* fragments; an answer that ends with a newline; a GIT_STATUS command split
\* over two fragments; a GIT_COMMIT command; a WRITE command; the primary
\* stream breaking after one fragment; an HTTP error status with Ollama
\* down; both down; no API key.
ChatBackends ==
    {[primary |-> "ok", text |-> <<<<"o">>, <<"k">>>>, cut |-> 0,
      alternate |-> "ok", alt_text |-> <<<<"y">>>>,
      e |-> ConnectError],
     [primary |-> "ok", text |-> <<<<"o", "k">>, <<"\n">>>>, cut |-> 0,
      alternate |-> "ok", alt_text |-> <<<<"y">>>>,
      e |-> ConnectError],
     [primary |-> "ok", text |-> <<<<"[", "G", "I", "T", "_">>, <<"S", "T",
             "A", "T", "U", "S", "]">>>>, cut |-> 0,
      alternate |-> "ok", alt_text |-> <<<<"y">>>>,
      e |-> ConnectError],
     [primary |-> "ok", text |-> <<<<"[", "G", "I", "T", "_", "C", "O", "M",
             "M", "I", "T", ":", "m", "]">>>>, cut |-> 0,
      alternate |-> "ok", alt_text |-> <<<<"y">>>>,
      e |-> ConnectError],
     [primary |-> "ok", text |-> <<<<"[", "W", "R", "I", "T", "E", ":", "~",
             "/", "p", "]", "x">>, <<"[", "/", "W", "R", "I", "T", "E",
             "]">>>>, cut |-> 0,
      alternate |-> "ok", alt_text |-> <<<<"y">>>>,
      e |-> ConnectError],
     [primary |-> "error", text |-> <<<<"o">>, <<"k">>>>, cut |-> 1,
      alternate |-> "ok", alt_text |-> <<<<"y">>>>,
      e |-> ConnectError],
     [primary |-> "status", text |-> <<>>, cut |-> 0,
      alternate |-> "error", alt_text |-> <<>>,
      e |-> ConnectError],
     [primary |-> "error", text |-> <<>>, cut |-> 0,
      alternate |-> "error", alt_text |-> <<>>,
      e |-> ConnectError],
     [primary |-> "no_key", text |-> <<>>, cut |-> 0,
      alternate |-> "ok", alt_text |-> <<<<"y">>, <<>>>>,
      e |-> ConnectError]}

\* The outcomes of the file system and of git tried.
ToolEnvs ==
    {[safe |-> TRUE, write_ok |-> TRUE, git_ok |-> TRUE,
      status |-> <<"M", " ", "f">>, commit |-> <<"1", " ", "f", "i", "l", "e",
              " ", "c", "h", "a", "n", "g", "e", "d">>],
     [safe |-> FALSE, write_ok |-> TRUE, git_ok |-> FALSE,
      status |-> <<"M", " ", "f">>, commit |-> <<"1", " ", "f", "i", "l", "e",
              " ", "c", "h", "a", "n", "g", "e", "d">>],
     [safe |-> TRUE, write_ok |-> FALSE, git_ok |-> TRUE,
      status |-> <<"M", " ", "f">>, commit |-> <<"1", " ", "f", "i", "l", "e",
              " ", "c", "h", "a", "n", "g", "e", "d">>]}

\* `if not self.current_thread` decides on a new thread for every message
\* (a faulty variant of needs_thread).
needs_thread_always(t) == TRUE

\* if not self.current_thread:
needs_thread(t) == t = None

\* The async for of handle_message_stream is over after any fragment (a
\* faulty variant of stream_exhausted).
stream_exhausted_early(c) == c.pos >= 1

\* The async for of handle_message_stream is over: respond_stream has
\* yielded its last token.
stream_exhausted(c) == c.pos = Len(anthropic_stream(c.reply))

\* The memories the tools store, one store_memory call each, in the order
\* of the calls.
RECURSIVE store_all(_, _, _, _)
store_all(rows, seq, t, inputs) ==
    IF inputs = <<>> THEN rows
    ELSE LET r1 == store_memory(rows, seq, t, Head(inputs).type,
                                Head(inputs).content, None,
                                Head(inputs).importance, Head(inputs).metadata)
         IN  store_all(r1, Max(seq, Last(r1).id), t, Tail(inputs))

\* An on_event that works on a copy of the vector taken when the engine was
\* built (a faulty variant of after_event).
after_event_stale(es, raised, event, trigger) ==
    IF raised
    THEN [state |-> on_event_state(EmotionalState, event),
          snapshots |-> save(es.snapshots, on_event_state(EmotionalState, event),
                             trigger)]
    ELSE es

\* The state and the snapshot rows after on_event(event, details) when
\* `raised`, the same as before otherwise.
after_event(es, raised, event, trigger) ==
    IF raised
    THEN LET s1 == on_event_state(es.state, event)
         IN  [state |-> s1, snapshots |-> save(es.snapshots, s1, trigger)]
    ELSE es

UsedTools == <<"U", "s", "e", "d", " ", "t", "o", "o", "l", "s">>

\* _build_prompt: get_conversation_history(self.current_thread, limit=20)
HistoryLimit == 20

\* _build_prompt: search_memories(user_message, limit=3) and non_recent[:3]
RelevantLimit == 3

RECURSIVE first_rows(_, _)
\* The first `limit` of the rows `match` in ORDER BY timestamp ASC; rows of
\* one timestamp come in rowid order, so there is one such listing.
first_rows(match, limit) ==
    IF limit = 0 \/ match = {} THEN <<>>
    ELSE LET first == CHOOSE x \in match :
                          \A y \in match \ {x} : history_order(x, y)
         IN  <<first>> \o first_rows(match \ {first}, limit - 1)

\* _build_prompt: the rows listed under "Conversation so far".
history_text(rows, thread) ==
    IF thread = None THEN <<>>
    ELSE first_rows({r \in Range(rows) : r.thread_id = thread}, HistoryLimit)

\* _build_prompt: the rows listed under "Relevant memories", for the rows
\* `relevant` the search returned.
memory_text(relevant) ==
    LET non_recent == SelectSeq(relevant, LAMBDA r : r.type # "user_message")
    IN  SubSeq(non_recent, 1, Min(RelevantLimit, Len(non_recent)))

\* The first lines of handle_message and of handle_message_stream: the
\* thread, the new_conversation event, the user_message record and
\* _build_prompt, whose search_memories(user_message) raises on a message
\* without a word.
ChatBegin(variant, msg, b) ==
    \E mint \in {needs_thread(current_thread)} :
    \E es \in {after_event([state |-> state, snapshots |-> snapshots], mint,
                           "new_conversation", "new_conversation")} :
    \E thread \in {IF mint /\ thread_seq < Len(ThreadIds)
                    THEN uuid4(thread_seq + 1) ELSE current_thread} :
    \E rows \in {store_memory(memories, mem_seq, clock, "user_message", msg,
                               thread, 70, <<>>)} :
    \E relevant \in IF search_raises(msg) THEN {<<>>}
                     ELSE search_memories(rows, msg, RelevantLimit) :
        /\ mint => thread_seq < Len(ThreadIds)
        /\ current_thread' = thread
        /\ thread_seq' = IF mint THEN thread_seq + 1 ELSE thread_seq
        /\ state' = es.state
        /\ snapshots' = es.snapshots
        /\ memories' = rows
        /\ mem_seq' = Max(mem_seq, Last(memories').id)
        /\ chat' = [NoChat EXCEPT
                      !.pc = IF search_raises(msg) THEN "idle"
                             ELSE IF variant = "rest" THEN "respond" ELSE "stream",
                      !.variant = variant, !.user_message = msg, !.reply = b]
        /\ result' = [NoResult EXCEPT
                        !.op = "chat", !.arg = variant, !.query = msg,
                        !.error = search_raises(msg),
                        !.history = IF search_raises(msg) THEN <<>>
                                    ELSE history_text(rows, thread),
                        !.rows = memory_text(relevant)]
        /\ hist' = [hist EXCEPT !.chat_base = Len(memories)]

\* POST /api/chat: an empty message is refused, any other goes to
\* handle_message, which runs up to `await brain.respond`.
ChatRest(msg, b) ==
    /\ chat.pc = "idle"
    /\ ops < MaxChats
    /\ ops' = ops + 1
    /\ IF msg = <<>>
       THEN /\ result' = [NoResult EXCEPT !.op = "chat", !.arg = "rest",
                                          !.query = msg, !.error = TRUE]
            /\ UNCHANGED <<state, snapshots, memories, mem_seq, chatVars, hist>>
       ELSE ChatBegin("rest", msg, b)
    /\ UNCHANGED <<clock, markers, daemonVars, wsVars>>

\* A chat message on /ws: handle_message_stream is iterated, with no test of
\* the content, up to its first await of a token.
ChatWs(msg, b) ==
    /\ chat.pc = "idle"
    /\ ops < MaxChats
    /\ ops' = ops + 1
    /\ ChatBegin("stream", msg, b)
    /\ UNCHANGED <<clock, markers, daemonVars, wsVars>>

\* The response record of either variant.
store_response(rows, seq, content, results) ==
    store_memory(rows, seq, clock, "response", content, current_thread, 50,
                 tools_metadata(results))

\* handle_message after `await brain.respond`: the tools, their event, the
\* response record, the praise or frustration event, the text returned.
ChatRespond(env) ==
    /\ chat.pc = "respond"
    /\ \E response \in {anthropic_generate(chat.reply)} :
       \E run \in {execute_tools(response, env)} :
       \E rows1 \in {store_all(memories, mem_seq, clock, run.stored)} :
       \E es1 \in {after_event([state |-> state, snapshots |-> snapshots],
                               run.results # <<>>, "self_improvement",
                               trigger_label("self_improvement", UsedTools))} :
       \E ev \in {sentiment_event(chat.user_message)} :
       \E es2 \in {after_event(es1, ev # None, ev,
                               trigger_label(ev, details(chat.user_message)))} :
          /\ memories' = store_response(rows1, Max(mem_seq, Last(rows1).id),
                                        run.text, run.results)
          /\ mem_seq' = Last(memories').id
          /\ state' = es2.state
          /\ snapshots' = es2.snapshots
          /\ chat' = [chat EXCEPT !.pc = "idle", !.out = <<run.text>>]
          /\ result' = [NoResult EXCEPT !.op = "chat_done", !.arg = "rest",
                                        !.query = run.text]
    /\ UNCHANGED <<clock, markers, daemonVars, wsVars, current_thread,
                   thread_seq, ops, hist>>

\* handle_message_stream receives the next token of respond_stream, adds it
\* to full_response and yields it.
ChatToken ==
    /\ chat.pc = "stream"
    /\ ~stream_exhausted(chat)
    /\ chat.pos < Len(anthropic_stream(chat.reply))
    /\ \E token \in {anthropic_stream(chat.reply)[chat.pos + 1]} :
          /\ chat' = [chat EXCEPT !.pos = @ + 1, !.full_response = @ \o token,
                                  !.out = Append(@, token)]
          /\ result' = [NoResult EXCEPT !.op = "chat_token", !.query = token]
    /\ UNCHANGED <<emoVars, memVars, clock, markers, daemonVars, wsVars,
                   current_thread, thread_seq, ops, hist>>

\* handle_message_stream after the async for: the tools and, if any ran,
\* their event and the first line yielded; if none ran, the response record.
ChatStreamEnds(env) ==
    /\ chat.pc = "stream"
    /\ stream_exhausted(chat)
    /\ \E run \in {execute_tools(chat.full_response, env)} :
       \E rows1 \in {store_all(memories, mem_seq, clock, run.stored)} :
       \E es1 \in {after_event([state |-> state, snapshots |-> snapshots],
                               run.results # <<>>, "self_improvement",
                               trigger_label("self_improvement", UsedTools))} :
       \E lines \in {tool_yields(run.results)} :
          /\ state' = es1.state
          /\ snapshots' = es1.snapshots
          /\ IF run.results # <<>>
             THEN /\ memories' = rows1
                  /\ mem_seq' = Max(mem_seq, Last(rows1).id)
                  /\ chat' = [chat EXCEPT !.pc = "tool_yield",
                                          !.results = run.results,
                                          !.yields = Tail(lines),
                                          !.out = Append(@, Head(lines))]
                  /\ result' = [NoResult EXCEPT !.op = "chat_token",
                                                !.query = Head(lines)]
             ELSE /\ memories' = store_response(rows1, mem_seq,
                                                chat.full_response, <<>>)
                  /\ mem_seq' = Last(memories').id
                  /\ chat' = [chat EXCEPT !.pc = "idle"]
                  /\ result' = [NoResult EXCEPT !.op = "chat_done",
                                                !.arg = "stream",
                                                !.query = chat.full_response]
    /\ UNCHANGED <<clock, markers, daemonVars, wsVars, current_thread,
                   thread_seq, ops, hist>>

\* handle_message_stream is resumed after a line of the tool report: the
\* next line, or after the last one the response record.
ChatToolYield ==
    /\ chat.pc = "tool_yield"
    /\ IF chat.yields # <<>>
       THEN /\ chat' = [chat EXCEPT !.yields = Tail(@),
                                    !.out = Append(@, Head(chat.yields))]
            /\ result' = [NoResult EXCEPT !.op = "chat_token",
                                          !.query = Head(chat.yields)]
            /\ UNCHANGED memVars
       ELSE /\ memories' = store_response(memories, mem_seq, chat.full_response,
                                          chat.results)
            /\ mem_seq' = Max(mem_seq, Last(memories').id)
            /\ chat' = [chat EXCEPT !.pc = "idle"]
            /\ result' = [NoResult EXCEPT !.op = "chat_done", !.arg = "stream",
                                          !.query = chat.full_response]
    /\ UNCHANGED <<emoVars, clock, markers, daemonVars, wsVars, current_thread,
                   thread_seq, ops, hist>>

\* The consumer of the stream goes away: ws.send_text raises in
\* websocket_endpoint while the generator stands at a yield, and the
\* generator is closed there.
ChatAbandon ==
    /\ \/ chat.pc = "stream" /\ chat.pos > 0
       \/ chat.pc = "tool_yield"
    /\ chat' = [chat EXCEPT !.pc = "idle"]
    /\ result' = [NoResult EXCEPT !.op = "chat_abandoned", !.error = TRUE]
    /\ UNCHANGED <<emoVars, memVars, clock, markers, daemonVars, wsVars,
                   current_thread, thread_seq, ops, hist>>

\* DialogueHandler.new_conversation(), at any time.
ChatNewConversation ==
    /\ current_thread' = None
    /\ result' = [NoResult EXCEPT !.op = "new_conversation"]
    /\ UNCHANGED <<emoVars, memVars, clock, markers, daemonVars, wsVars,
                   thread_seq, chat, ops, hist>>

InitChat ==
    /\ state = EmotionalState
    /\ snapshots = <<>>
    /\ StoreIdle
    /\ DaemonIdle
    /\ ServerIdle
    /\ result = NoResult
    /\ ops = 0
    /\ hist = NoHist

NextChat ==
    \/ \E msg \in ChatUserTexts, b \in ChatBackends : ChatRest(msg, b)
    \/ \E msg \in ChatUserTexts, b \in ChatBackends : ChatWs(msg, b)
    \/ \E env \in ToolEnvs : ChatRespond(env)
    \/ ChatToken
    \/ \E env \in ToolEnvs : ChatStreamEnds(env)
    \/ ChatToolYield
    \/ ChatAbandon
    \/ ChatNewConversation

SpecChat == InitChat /\ [][NextChat]_vars

\* The records the request in flight has appended to the log by the end of
\* this step.
ChatAppended == SubSeq(memories', hist.chat_base + 1, Len(memories'))

\* This step enters handle_message or handle_message_stream.
HandlerEntered == result'.op = "chat" /\ Len(memories') > Len(memories)

\* C14: every completed handle(user_text) call appends exactly two records,
\* the user-message record with the user's text (importance 0.7) and then a
\* response record, and no other record.
C14_TwoRecords ==
    [][result'.op = "chat_done" =>
          /\ Len(ChatAppended) = 2
          /\ ChatAppended[1].type = "user_message"
          /\ ChatAppended[1].content = chat.user_message
          /\ ChatAppended[1].importance = 70
          /\ ChatAppended[2].type = "response"]_vars

\* C15: a thread identifier is minted and new_conversation is raised exactly
\* when a message is handled while no thread is current; a later message
\* keeps the thread and raises no new_conversation, and the message is
\* stored under the current thread.
C15_ThreadMinting ==
    [][/\ HandlerEntered =>
            /\ IF current_thread = None
               THEN /\ current_thread' # None
                    /\ thread_seq' = thread_seq + 1
                    /\ \A i \in 1..Len(memories) :
                          memories[i].thread_id # current_thread'
                    /\ Len(snapshots') = Len(snapshots) + 1
                    /\ Last(snapshots').trigger = "new_conversation"
               ELSE /\ current_thread' = current_thread
                    /\ thread_seq' = thread_seq
                    /\ snapshots' = snapshots
            /\ Last(memories').thread_id = current_thread'
       /\ ~HandlerEntered =>
            /\ thread_seq' = thread_seq
            /\ current_thread' \in {current_thread, None}
            /\ \A i \in (Len(snapshots) + 1)..Len(snapshots') :
                  snapshots'[i].trigger[1] # "new_conversation"]_vars

\* The second message of a session has been stored under the thread minted
\* for the first, and after new_conversation() a third thread would be new.
C15_Witness ==
    /\ result.op = "chat" /\ ops = 2 /\ thread_seq = 1
    /\ Len(memories) >= 3
    /\ memories[1].type = "user_message" /\ memories[1].thread_id = "u1"
    /\ Last(memories).type = "user_message" /\ Last(memories).thread_id = "u1"
    /\ Len(snapshots) >= 1 /\ snapshots[1].trigger = "new_conversation"

\* C16: for the same user text and the same backend behaviour the streaming
\* variant stores the records the non-streaming variant stores: the
\* user-message record and a response record with the same kind, thread,
\* importance, content and metadata.
C16_SameRecords ==
    [][(result'.op = "chat_done" /\ result'.arg = "stream") =>
          \E env \in ToolEnvs :
              LET run == execute_tools(anthropic_generate(chat.reply), env)
                  new == ChatAppended
              IN  /\ new[1].type = "user_message"
                  /\ new[1].content = chat.user_message
                  /\ new[1].importance = 70
                  /\ Last(new).type = "response"
                  /\ Last(new).thread_id = new[1].thread_id
                  /\ Last(new).importance = 50
                  /\ Last(new).content = run.text
                  /\ Last(new).metadata = tools_metadata(run.results)]_vars

\* C17: in the streaming variant a response record is appended only after
\* the backend stream has ended, with the concatenation of all its
\* fragments as content; while the stream is being consumed, and after the
\* consumer has abandoned it, the log holds no response record of the
\* request.
C17_NoPartialResponse ==
    [][/\ \A i \in (Len(memories) + 1)..Len(memories') :
            (memories'[i].type = "response" /\ chat.variant = "stream") =>
                /\ chat.pos = Len(anthropic_stream(chat.reply))
                /\ memories'[i].content = concat(anthropic_stream(chat.reply))
       /\ (chat'.pc \in {"stream", "tool_yield"} \/ result'.op = "chat_abandoned") =>
            \A i \in (hist'.chat_base + 1)..Len(memories') :
                memories'[i].type # "response"]_vars

\* A stream of two fragments has ended and its response record holds both.
C17_Witness ==
    /\ result.op = "chat_done" /\ result.arg = "stream"
    /\ chat.pos = 2 /\ Len(chat.out) >= 2
    /\ Last(memories).type = "response"
    /\ Last(memories).content = chat.out[1] \o chat.out[2]
    /\ chat.out[1] # <<>> /\ chat.out[2] # <<>>

\* C18: a chat request with an empty message, by REST or by WebSocket, is
\* refused and changes nothing: no memory record, no thread, the emotional
\* state and its snapshots as before.
C18_EmptyRejected ==
    [][(result'.op = "chat" /\ result'.query = <<>>) =>
          /\ result'.error
          /\ UNCHANGED <<memories, current_thread, thread_seq, state, snapshots>>]_vars

\* C19: no response record holds the raw error text of a backend.
C19_NoRawError ==
    \A i \in 1..Len(memories) :
        memories[i].type = "response" =>
            ~startswith(memories[i].content, BrainErrorPrefix)

\* C31: the response record of an exchange carries the thread identifier of
\* the exchange's user-message record, whatever happened while the backend
\* call was awaited.
C31_ResponseInThread ==
    [][result'.op = "chat_done" =>
          memories'[Len(memories')].thread_id = memories'[hist.chat_base + 1].thread_id]_vars

\* The sentiment events among the snapshot rows `new` extends `old` by.
SentimentRows(old, new) ==
    {i \in (Len(old) + 1)..Len(new) :
        new[i].trigger[1] \in {"user_praise", "user_frustration"}}

\* C32: in either variant, a handled message raises one sentiment event when
\* the user's text holds a praise or a frustration word, user_praise before
\* user_frustration, and none otherwise.
C32_SentimentEitherVariant ==
    [][result'.op = "chat_done" =>
          \E ev \in {sentiment_event(chat.user_message)} :
              IF ev = None
              THEN SentimentRows(snapshots, snapshots') = {}
              ELSE /\ Cardinality(SentimentRows(snapshots, snapshots')) = 1
                   /\ snapshots'[Len(snapshots')].trigger
                          = trigger_label(ev, details(chat.user_message))]_vars

-----------------------------------------------------------------------------
(* The subscribers: server.broadcast, called by the daemon for each thought,
   and the /ws endpoint that registers and drops WebSockets *)

\* Calls of broadcast() in one run, and WebSocket objects.
MaxBroadcasts == 2
MaxSockets == 3

SocketNames == <<"w1", "w2", "w3", "w4">>
Sockets == {SocketNames[i] : i \in 1..MaxSockets}

\* A WebSocket nobody has connected with yet.
NewSocket == [status |-> "new", msgs |-> <<>>]

\* connected_clients.difference_update(disconnected)
after_broadcast(clients, disconnected) == clients \ disconnected

\* `for ws in connected_clients` asks the set iterator for the next socket,
\* after the send to b.current has returned or raised. The iterator raises
\* RuntimeError("Set changed size during iteration") when the size of the
\* set is not the size it had when the loop began; the exception leaves
\* broadcast() before difference_update. Otherwise the loop goes on with a
\* socket not yet visited, in the arbitrary order of the set, and ends when
\* none is left; if the members changed and the size did not, the iterator
\* walks the table as it is now and may end early.
NextSocket(b) ==
    IF Cardinality(connected_clients) # b.size
    THEN /\ bcast' = [b EXCEPT !.pc = "idle", !.current = None]
         /\ result' = [NoResult EXCEPT !.op = "broadcast", !.id = b.msg,
                                       !.error = TRUE]
         /\ UNCHANGED connected_clients
    ELSE \/ /\ \/ connected_clients \ b.visited = {}
               \/ connected_clients # b.members
            /\ connected_clients' = after_broadcast(connected_clients, b.disconnected)
            /\ bcast' = [b EXCEPT !.pc = "idle", !.current = None]
            /\ result' = [NoResult EXCEPT !.op = "broadcast", !.id = b.msg]
         \/ \E ws \in connected_clients \ b.visited :
              /\ bcast' = [b EXCEPT !.pc = "sending", !.current = ws,
                                    !.visited = @ \cup {ws}]
              /\ result' = [NoResult EXCEPT !.op = "send", !.arg = ws, !.id = b.msg]
              /\ UNCHANGED connected_clients

\* The daemon calls broadcast(data) for thought number ops + 1: the loop
\* begins and runs up to the first `await ws.send_text(msg)`.
BcastStart ==
    /\ bcast.pc = "idle"
    /\ ops < MaxBroadcasts
    /\ ops' = ops + 1
    /\ NextSocket([pc |-> "idle", msg |-> ops + 1,
                   size |-> Cardinality(connected_clients),
                   members |-> connected_clients, visited |-> {},
                   current |-> None, disconnected |-> {}])
    /\ hist' = [hist EXCEPT !.bcast_initial = connected_clients]
    /\ UNCHANGED <<emoVars, memVars, clock, markers, daemonVars, chatVars, sockets>>

\* `await ws.send_text(msg)` is over: the message has reached an open
\* socket, or the send has raised on a closed one and the socket is noted in
\* `disconnected`; then the loop goes on.
BcastSend ==
    /\ bcast.pc = "sending"
    /\ IF sockets[bcast.current].status = "open"
       THEN /\ sockets' = [sockets EXCEPT ![bcast.current].msgs = Append(@, bcast.msg)]
            /\ NextSocket(bcast)
       ELSE /\ UNCHANGED sockets
            /\ NextSocket([bcast EXCEPT !.disconnected = @ \cup {bcast.current}])
    /\ UNCHANGED <<emoVars, memVars, clock, markers, daemonVars, chatVars, ops,
                   hist>>

\* websocket_endpoint: a client connects, the socket is accepted and added to
\* connected_clients.
WsConnect(ws) ==
    /\ sockets[ws].status = "new"
    /\ sockets' = [sockets EXCEPT ![ws].status = "open"]
    /\ connected_clients' = connected_clients \cup {ws}
    /\ result' = [NoResult EXCEPT !.op = "connect", !.arg = ws]
    /\ UNCHANGED <<emoVars, memVars, clock, markers, daemonVars, chatVars, bcast,
                   ops, hist>>

\* The peer of an open socket goes away.
WsPeerCloses(ws) ==
    /\ sockets[ws].status = "open"
    /\ sockets' = [sockets EXCEPT ![ws].status = "closed"]
    /\ result' = [NoResult EXCEPT !.op = "peer_closes", !.arg = ws]
    /\ UNCHANGED <<emoVars, memVars, clock, markers, daemonVars, chatVars,
                   connected_clients, bcast, ops, hist>>

\* websocket_endpoint: receive_text raises WebSocketDisconnect on a closed
\* socket and the handler discards it.
WsDisconnect(ws) ==
    /\ sockets[ws].status = "closed"
    /\ ws \in connected_clients
    /\ connected_clients' = connected_clients \ {ws}
    /\ result' = [NoResult EXCEPT !.op = "disconnect", !.arg = ws]
    /\ UNCHANGED <<emoVars, memVars, clock, markers, daemonVars, chatVars, sockets,
                   bcast, ops, hist>>

InitBroadcast ==
    /\ state = EmotionalState
    /\ snapshots = <<>>
    /\ StoreIdle
    /\ DaemonIdle
    /\ ChatIdle
    /\ connected_clients = {}
    /\ bcast = NoBcast
    /\ sockets = [ws \in Sockets |-> NewSocket]
    /\ result = NoResult
    /\ ops = 0
    /\ hist = NoHist

NextBroadcast ==
    \/ BcastStart
    \/ BcastSend
    \/ \E ws \in Sockets : WsConnect(ws)
    \/ \E ws \in Sockets : WsPeerCloses(ws)
    \/ \E ws \in Sockets : WsDisconnect(ws)

SpecBroadcast == InitBroadcast /\ [][NextBroadcast]_vars

\* This step completes a call of broadcast() in which a send has failed.
BroadcastWithFailure ==
    /\ result'.op = "broadcast"
    /\ bcast'.disconnected # {}

\* C13: when a send to one subscriber fails, the call of broadcast() still
\* returns normally, every other subscriber registered at its start and
\* still open has the message, no socket was tried twice, and the failing
\* subscriber is no longer registered.
C13_FailureIsolated ==
    [][BroadcastWithFailure =>
          /\ ~result'.error
          /\ \A ws \in hist'.bcast_initial :
                sockets'[ws].status = "open" =>
                    \E i \in 1..Len(sockets'[ws].msgs) :
                        sockets'[ws].msgs[i] = bcast'.msg
          /\ \A ws \in Sockets :
                Cardinality({i \in 1..Len(sockets'[ws].msgs) :
                                sockets'[ws].msgs[i] = bcast'.msg}) <= 1
          /\ \A ws \in bcast'.disconnected : ws \notin connected_clients']_vars

\* C30: whatever connects or disconnects while broadcast() is suspended on a
\* send, the call returns normally and every subscriber that was registered
\* when it began, is still registered and is open has the message.
C30_MembershipChangeTolerated ==
    [][result'.op = "broadcast" =>
          /\ ~result'.error
          /\ \A ws \in hist'.bcast_initial \cap connected_clients' :
                sockets'[ws].status = "open" =>
                    \E i \in 1..Len(sockets'[ws].msgs) :
                        sockets'[ws].msgs[i] = bcast'.msg]_vars

-----------------------------------------------------------------------------
(* EmotionalState.decay alone: calls with any vector and any positive time *)

\* Calls of decay in one run.
MaxDecays == 2

\* The levels of frustration, excitement and focus the runs start from: a
\* grid over [0, 1], and one level near each target of the decay.
DecayGrid == 4
NearTarget == Pct(2)
DecayLevels ==
    {(k * Unit) \div DecayGrid : k \in 0..DecayGrid}
        \cup {NearTarget, Pct(50) + NearTarget}

\* Elapsed seconds handed to decay: under, at and over the cap of 360 s.
DecayTimes == {2, 180, 360, 3600, 7200}

InitDecay ==
    /\ \E f \in DecayLevels, e \in DecayLevels, c \in DecayLevels :
          state = [EmotionalState EXCEPT !.frustration = f, !.excitement = e,
                                         !.focus = c]
    /\ snapshots = <<>>
    /\ StoreIdle
    /\ DaemonIdle
    /\ ServerIdle
    /\ result = NoResult
    /\ ops = 0
    /\ hist = NoHist

\* state.decay(dt_seconds), as tick() calls it.
Decay(dt) ==
    /\ ops < MaxDecays
    /\ state' = decay(state, dt)
    /\ ops' = ops + 1
    /\ result' = [NoResult EXCEPT !.op = "decay", !.value = dt]
    /\ hist' = [hist EXCEPT !.before = state]
    /\ UNCHANGED <<snapshots, memories, mem_seq, clock, markers>>
    /\ UNCHANGED <<daemonVars, serverVars>>

NextDecay == \E dt \in DecayTimes : Decay(dt)

SpecDecay == InitDecay /\ [][NextDecay]_vars

\* Distance of a value to a target.
Dist(x, target) == IF x >= target THEN x - target ELSE target - x

\* C21: a call of decay with a positive time leaves frustration no larger,
\* and leaves excitement and focus no farther from 0.5 and on the same side
\* of it.
C21_DecayMonotone ==
    [][result'.op = "decay" =>
          /\ state'.frustration <= state.frustration
          /\ \A d \in {"excitement", "focus"} :
                /\ Dist(state'[d], Pct(50)) <= Dist(state[d], Pct(50))
                /\ state[d] >= Pct(50) => state'[d] >= Pct(50)
                /\ state[d] <= Pct(50) => state'[d] <= Pct(50)]_vars

\* A call of decay has lowered frustration, lowered an excitement above 0.5
\* and raised a focus below 0.5.
C21_Witness ==
    /\ result.op = "decay"
    /\ state.frustration < hist.before.frustration
    /\ hist.before.excitement > Pct(50)
    /\ state.excitement < hist.before.excitement
    /\ hist.before.focus < Pct(50)
    /\ state.focus > hist.before.focus

\* C22: one call of decay moves frustration, excitement and focus by at most
\* a tenth of the distance to the target (0 for frustration, 0.5 for the
\* other two), and a dimension off its target is not put onto it.
C22_TenthOfDistance ==
    [][result'.op = "decay" =>
          \A d \in {"frustration", "excitement", "focus"} :
             \E target \in {IF d = "frustration" THEN 0 ELSE Pct(50)} :
                /\ 10 * Dist(state'[d], state[d]) <= Dist(state[d], target)
                /\ state[d] # target => state'[d] # target]_vars

\* What "up to rounding" allows between two vectors: a thousandth.
Tolerance == Unit \div 1000
Close(a, b) == \A f \in Fields : Dist(a[f], b[f]) <= Tolerance

\* C23: two calls of decay with the same time, one after the other, leave
\* the vector one call with twice the time would have left, up to rounding.
C23_FrequencyInsensitive ==
    [][(result.op = "decay" /\ result'.op = "decay"
            /\ result'.value = result.value)
          => Close(state', decay(hist.before, 2 * result.value))]_vars

-----------------------------------------------------------------------------
(* Process starts: the module-level EmotionEngine() and lifespan's first-boot
   check, over restarts of the server and runs of the seeding script *)

\* Starts of the server process in one run.
MaxBoots == 3

\* _load_latest: the newest row of emotional_state, the dataclass defaults
\* when the table is empty.
load_latest(rows) == IF rows = <<>> THEN EmotionalState ELSE Last(rows).state

\* get_first_memory(): the records ORDER BY timestamp ASC LIMIT 1 may
\* return, none (the function returns None) when the log is empty.
get_first_memory(rows) ==
    {r \in Range(rows) : \A x \in Range(rows) : ~iso_less(x.timestamp, r.timestamp)}

\* A first-boot test that always passes (a faulty variant of first_boot).
first_boot_always(rows) == TRUE

\* lifespan: `if not first`
first_boot(rows) == get_first_memory(rows) = {}

\* The beginning of the first thought lifespan stores.
FirstThought == <<"I", " ", "e", "x", "i", "s", "t", ".">>

\* The server process starts: server.py builds the EmotionEngine, which
\* loads the latest snapshot, and lifespan runs up to the creation of the
\* daemon task. On an empty log: the first_boot marker, the boot event and
\* the first thought; otherwise the boot marker.
lifespan_startup ==
    /\ pc = "down"
    /\ ops < MaxBoots
    /\ ops' = ops + 1
    /\ pc' = "not_started"
    /\ IF first_boot(memories)
       THEN /\ mem_seq < MaxRowid
            /\ markers' = Append(markers, "first_boot")
            /\ state' = on_event_state(load_latest(snapshots), "boot")
            /\ snapshots' = save(snapshots, state', "boot")
            /\ memories' = store_memory(memories, mem_seq, clock, "thought",
                                        FirstThought, None, 100, 1)
            /\ mem_seq' = Max(mem_seq, Last(memories').id)
            /\ result' = [NoResult EXCEPT !.op = "startup", !.arg = "first_boot"]
       ELSE /\ markers' = Append(markers, "boot")
            /\ state' = load_latest(snapshots)
            /\ result' = [NoResult EXCEPT !.op = "startup", !.arg = "boot"]
            /\ UNCHANGED <<snapshots, memories, mem_seq>>
    /\ hist' = [hist EXCEPT !.before = state]
    /\ UNCHANGED <<clock, running, paused, thought_count, recent_thought_hashes,
                   thought, cancelled, delivered, backend, serverVars>>

\* The process ends.
ProcessExit ==
    /\ pc = "not_started"
    /\ pc' = "down"
    /\ result' = [NoResult EXCEPT !.op = "exit"]
    /\ UNCHANGED <<emoVars, memVars, clock, markers, running, paused,
                   thought_count, recent_thought_hashes, thought, cancelled,
                   delivered, backend, ops, hist, serverVars>>

InitBoot ==
    /\ state = EmotionalState
    /\ snapshots = <<>>
    /\ StoreIdle
    /\ running = FALSE
    /\ paused = FALSE
    /\ thought_count = 0
    /\ recent_thought_hashes = <<>>
    /\ pc = "down"
    /\ thought = <<>>
    /\ cancelled = FALSE
    /\ delivered = <<>>
    /\ backend = NoBackend
    /\ ServerIdle
    /\ result = NoResult
    /\ ops = 0
    /\ hist = NoHist

\* The running server appends records and raises events; the seeding script
\* and the clock run whether the server is up or not.
NextBoot ==
    \/ lifespan_startup
    \/ ProcessExit
    \/ pc = "not_started" /\ \E in \in MemInputs : MemStore(in)
    \/ pc = "not_started" /\ EmoOnEvent("deep_thought")
    \/ MemSeed
    \/ MemTick

SpecBoot == InitBoot /\ [][NextBoot]_vars

\* Snapshots the boot event has written.
BootEvents(rows) == {i \in 1..Len(rows) : rows[i].trigger = "boot"}

\* This step is a start of the server process.
StartupStep == pc = "down" /\ pc' = "not_started"

-----------------------------------------------------------------------------
(* The daemon task and the chat handlers on one event loop: their steps
   between two awaits, in any order *)

\* The backends of the chat requests tried beside the daemon: a plain answer
\* and an answer with a GIT_COMMIT command; the tools succeed.
ServerBackends ==
    {b \in ChatBackends : b.primary = "ok" /\ (Len(b.text) = 1 \/ b.text[1] = <<"o">>)}
ServerEnvs == {env \in ToolEnvs : env.safe /\ env.write_ok /\ env.git_ok}

NextServer ==
    \/ Start
    \/ \E r \in Replies : \E t \in generated[r.raw] : \E dt \in DaemonDts :
          ReplyAccepted(r, t, "none", dt, MaxThoughts)
    \/ SleepEnds
    \/ \E msg \in ChatUserTexts, b \in ServerBackends : ChatRest(msg, b)
    \/ \E msg \in ChatUserTexts, b \in ServerBackends : ChatWs(msg, b)
    \/ \E env \in ServerEnvs : ChatRespond(env)
    \/ ChatToken
    \/ \E env \in ServerEnvs : ChatStreamEnds(env)
    \/ ChatToolYield
    \/ ChatAbandon

SpecServer == InitDaemon /\ [][NextServer]_vars

\* The rows a step has appended to a table.
NewRows(old, new) == SubSeq(new, Len(old) + 1, Len(new))
Extends(old, new) == Len(new) >= Len(old) /\ SubSeq(new, 1, Len(old)) = old

\* The snapshots `rows` are those of events applied one after the other,
\* the first of them to the vector s, each snapshot holding the vector its
\* event left.
RECURSIVE SequentialEvents(_, _)
SequentialEvents(s, rows) ==
    \/ rows = <<>>
    \/ /\ rows # <<>>
       /\ \E e \in KnownEvents : Head(rows).state = on_event_state(s, e)
       /\ SequentialEvents(Head(rows).state, Tail(rows))

\* C28: in every step of the daemon task or of a chat handler, whatever ran
\* before it, the snapshots appended are those of events applied one after
\* the other to the live vector (after the decay of a tick, in the daemon),
\* the live vector is the one the last of them left, and the records
\* appended have rowids above every earlier one; nothing earlier is changed.
C28_AtomicUpdates ==
    [][/\ Extends(snapshots, snapshots')
       /\ Extends(memories, memories')
       /\ IF snapshots' = snapshots THEN state' = state
          ELSE /\ state' = Last(snapshots').state
               /\ \E base \in {state} \cup {decay(state, dt) : dt \in DaemonDts} :
                     SequentialEvents(base, NewRows(snapshots, snapshots'))
       /\ \A i \in (Len(memories) + 1)..Len(memories') :
             \A j \in 1..(i - 1) : memories'[j].id < memories'[i].id]_vars

\* A chat request has completed, and the daemon stored a thought between the
\* user's message and the response.
C28_Witness ==
    /\ result.op = "chat_done"
    /\ Len(snapshots) >= 3
    /\ \E j \in (hist.chat_base + 2)..Len(memories) : memories[j].type = "thought"
    /\ memories[Len(memories)].type = "response"

-----------------------------------------------------------------------------
(* The context of a reply: what _build_prompt takes from the log for the
   message being handled, over conversations longer than the history limit *)

\* Chat requests in one run.
MaxTurns == 11

\* Thoughts of the daemon in the log when the conversation starts: one of
\* the lowest importance _assess_importance gives, one of a high importance.
ContextInputs ==
    {[type |-> "thought", content |-> <<"a", " ", "b">>, thread_id |-> None,
      importance |-> 40],
     [type |-> "thought", content |-> <<"B", " ", "A">>, thread_id |-> None,
      importance |-> 90]}

\* The message of the user, the same at every turn.
ContextTexts == {<<"a", " ", "b">>}

\* The backend answers "ok".
ContextBackends == {b \in ChatBackends : anthropic_generate(b) = <<"o", "k">>}

\* POST /api/chat with a message that is not empty: handle_message up to
\* `await brain.respond`.
ContextChat(msg, b) ==
    /\ chat.pc = "idle"
    /\ ops < MaxTurns
    /\ ops' = ops + 1
    /\ ChatBegin("rest", msg, b)
    /\ UNCHANGED <<clock, markers, daemonVars, wsVars>>

NextContext ==
    \/ MemTick
    \/ \E in \in ContextInputs : MemStore(in)
    \/ \E msg \in ContextTexts, b \in ContextBackends : ContextChat(msg, b)
    \/ \E env \in ToolEnvs : ChatRespond(env)

SpecContext == InitChat /\ [][NextContext]_vars

\* The records other than user messages whose content holds every word of
\* the query.
NonUserMatches(rows, query) ==
    {r \in Range(rows) :
        /\ r.type # "user_message"
        /\ \A i \in 1..Len(split(lower(query))) :
              like_condition(r.content, split(lower(query))[i])}

\* C33: the relevant memories of the context are the first min(3, matches)
\* of the matching records that are not user messages, by importance and
\* then recency, whatever user messages the log holds.
C33_ContextTopHits ==
    (result.op = "chat" /\ ~result.error) =>
        result.rows \in Listings(NonUserMatches(memories, result.query),
                                 search_order, RelevantLimit)

\* The records of the thread in the order they were appended.
ThreadRecords(rows, thread) == SelectSeq(rows, LAMBDA r : r.thread_id = thread)

\* C34: the history of the context is the most recent window of the current
\* thread: its last 20 records, oldest first.
C34_RecentWindow ==
    (result.op = "chat" /\ ~result.error) =>
        \E t \in {ThreadRecords(memories, current_thread)} :
            result.history = SubSeq(t, Max(1, Len(t) - HistoryLimit + 1), Len(t))

-----------------------------------------------------------------------------
(* The cleanup of _generate_thought alone, over every short raw output *)

\* Length of the raw outputs tried.
MaxRawLen == 4

\* Calls of _generate_thought in one run.
MaxCleanups == 1

RawAlphabet == {"a", ".", "?", " ", "\n", "\""}

\* The outputs of brain.think tried: every text over the alphabet up to the
\* length above.
RawOutputs == UNION {[1..n -> RawAlphabet] : n \in 0..MaxRawLen}

\* thought.strip().strip('"').strip("'")
strip_quotes(raw) == strip(strip(strip(raw, WhiteSpace), {"\""}), {"'"})

\* _generate_thought from the reply of brain.think to the hard cap.
CleanUp(raw) ==
    /\ ops < MaxCleanups
    /\ ops' = ops + 1
    /\ thought' = raw
    /\ result' = [NoResult EXCEPT !.op = "clean", !.query = clean(raw)]
    /\ UNCHANGED <<emoVars, memVars, clock, markers, running, paused,
                   thought_count, recent_thought_hashes, pc, cancelled,
                   delivered, backend, hist>>
    /\ UNCHANGED serverVars

NextSentence == \E raw \in RawOutputs : CleanUp(raw)

SpecSentence == InitDaemon /\ [][NextSentence]_vars

\* The positions of the text where a sentence or a line ends: a newline, or
\* one of ".", "?", "!" with a space after it.
Boundaries(text) ==
    {i \in 1..Len(text) :
        \/ text[i] = "\n"
        \/ text[i] \in {".", "?", "!"} /\ i < Len(text) /\ text[i + 1] = " "}

\* The text up to its earliest boundary, the punctuation kept and the
\* newline not; the whole text if it has none.
EarliestCut(text) ==
    IF Boundaries(text) = {} THEN text
    ELSE LET i == CHOOSE i \in Boundaries(text) :
                      \A j \in Boundaries(text) : i <= j
         IN  SubSeq(text, 1, IF text[i] = "\n" THEN i - 1 ELSE i)

\* C35: the stripped output is cut at its earliest sentence or line boundary
\* and kept whole when it has none.
C35_EarliestBoundary ==
    result.op = "clean" => result.query = EarliestCut(strip_quotes(thought))

-----------------------------------------------------------------------------
(* A client connects while the daemon thinks: websocket_endpoint from
   accept() to its receive loop, beside the thoughts the daemon stores and
   broadcasts *)

\* Thoughts of the daemon in one run.
MaxReplayThoughts == 2

\* WebSocket objects of the run.
MaxEndpoints == 2

Endpoints == {SocketNames[i] : i \in 1..MaxEndpoints}

\* get_recent_thoughts(limit=10)
ReplayLimit == 10

\* The "connected" message among the numbers a socket receives; a thought
\* message is noted by its thought_number.
ConnectedMsg == 0

\* The content of every thought of the run.
ReplayThought == <<"a">>

\* A WebSocket nobody has connected with yet, with the place its endpoint
\* stands at and the thoughts it has still to replay.
NewEndpoint == [status |-> "new", msgs |-> <<>>, pc |-> "new", replay |-> <<>>]

\* reversed(recent): the thought numbers, oldest first.
reversed_numbers(recent) ==
    [i \in 1..Len(recent) |-> recent[Len(recent) + 1 - i].metadata]

\* run() accepts a thought: the counter, store_memory, and broadcast() up to
\* its first `await ws.send_text(msg)`.
ThoughtBroadcast ==
    /\ bcast.pc = "idle"
    /\ thought_count < MaxReplayThoughts
    /\ thought_count' = thought_count + 1
    /\ clock' = clock + TicksPerSecond
    /\ memories' = store_memory(memories, mem_seq, clock', "thought",
                                ReplayThought, None,
                                assess_importance(ReplayThought), thought_count')
    /\ mem_seq' = Max(mem_seq, Last(memories').id)
    /\ NextSocket([pc |-> "idle", msg |-> thought_count',
                   size |-> Cardinality(connected_clients),
                   members |-> connected_clients, visited |-> {},
                   current |-> None, disconnected |-> {}])
    /\ hist' = [hist EXCEPT !.bcast_initial = connected_clients]
    /\ UNCHANGED <<emoVars, markers, running, paused, recent_thought_hashes, pc,
                   thought, cancelled, delivered, backend, chatVars, sockets,
                   ops>>

\* websocket_endpoint: accept() has returned, the socket is added to
\* connected_clients and the "connected" message is being sent.
WsRegister(ws) ==
    /\ sockets[ws].pc = "new"
    /\ sockets' = [sockets EXCEPT ![ws].status = "open",
                                  ![ws].pc = "connected_send"]
    /\ connected_clients' = connected_clients \cup {ws}
    /\ result' = [NoResult EXCEPT !.op = "connect", !.arg = ws]
    /\ UNCHANGED <<emoVars, memVars, clock, markers, daemonVars, chatVars, bcast,
                   ops, hist>>

\* The "connected" message is out: the endpoint reads the recent thoughts
\* and begins to send them, oldest first.
WsConnectedSent(ws) ==
    /\ sockets[ws].pc = "connected_send"
    /\ \E recent \in get_recent_memories(memories, "thought", ReplayLimit) :
          sockets' = [sockets EXCEPT
                         ![ws].msgs = Append(@, ConnectedMsg),
                         ![ws].replay = reversed_numbers(recent),
                         ![ws].pc = IF recent = <<>> THEN "receive" ELSE "replay"]
    /\ result' = [NoResult EXCEPT !.op = "connected", !.arg = ws]
    /\ UNCHANGED <<emoVars, memVars, clock, markers, daemonVars, chatVars,
                   connected_clients, bcast, ops, hist>>

\* A replayed thought is out: the next one, or the receive loop.
WsReplaySent(ws) ==
    /\ sockets[ws].pc = "replay"
    /\ sockets' = [sockets EXCEPT
                      ![ws].msgs = Append(@, Head(sockets[ws].replay)),
                      ![ws].replay = Tail(@),
                      ![ws].pc = IF Tail(sockets[ws].replay) = <<>>
                                 THEN "receive" ELSE "replay"]
    /\ result' = [NoResult EXCEPT !.op = "replay", !.arg = ws,
                                  !.id = Head(sockets[ws].replay)]
    /\ UNCHANGED <<emoVars, memVars, clock, markers, daemonVars, chatVars,
                   connected_clients, bcast, ops, hist>>

InitReplay ==
    /\ state = EmotionalState
    /\ snapshots = <<>>
    /\ StoreIdle
    /\ DaemonIdle
    /\ ChatIdle
    /\ connected_clients = {}
    /\ bcast = NoBcast
    /\ sockets = [ws \in Endpoints |-> NewEndpoint]
    /\ result = NoResult
    /\ ops = 0
    /\ hist = NoHist

NextReplay ==
    \/ ThoughtBroadcast
    \/ BcastSend
    \/ \E ws \in Endpoints : WsRegister(ws)
    \/ \E ws \in Endpoints : WsConnectedSent(ws)
    \/ \E ws \in Endpoints : WsReplaySent(ws)

SpecReplay == InitReplay /\ [][NextReplay]_vars

\* C40: a subscriber receives every thought at most once and in the order
\* of the thoughts: no replayed thought repeats a broadcast one or arrives
\* after a newer one.
C40_ThoughtsOnceInOrder ==
    \A ws \in Endpoints :
        \A i, j \in 1..Len(sockets[ws].msgs) :
            (i < j /\ sockets[ws].msgs[i] # ConnectedMsg
                   /\ sockets[ws].msgs[j] # ConnectedMsg)
                => sockets[ws].msgs[i] < sockets[ws].msgs[j]

=============================================================================
